---- MODULE Spec2Model ----
(***************************************************************************)
(* The node-graph execution engine of DPGWidgets (src/NodeEditor/node.py   *)
(* and src/NodeEditor/widget.py): attributes and their connections, the    *)
(* priority-aware scheduler, one process() tick with the re-execution      *)
(* helpers, the input buffers, node removal, save() and load() of the      *)
(* graph, and the NodeManager registry of node factories.                  *)
(***************************************************************************)
EXTENDS Integers, Sequences, FiniteSets, TLC

\* ------------------------------------------------------------------------
\* The universe of the model
\* ------------------------------------------------------------------------

\* Number of Node objects that exist.
NumNodes == 3
\* maxlen of an input's deque (the buffersize argument of InputNodeAttribute).
buffersize == 2
\* Number of set_data calls made directly on outputs in SpecConn.
MaxEmits == 1

Nodes == 1..NumNodes

\* Input attributes a node was built with: the last node has two, the others one.
NumInputs(n) == IF n = NumNodes THEN 2 ELSE 1
\* Output attributes a node was built with.
NumOutputs(n) == 1

\* node._input_attributes and node._output_attributes, in order.
input_attributes(n) == [k \in 1..NumInputs(n) |-> <<n, k>>]
output_attributes(n) == [k \in 1..NumOutputs(n) |-> <<n, k>>]

Inputs == UNION {{<<n, k>> : k \in 1..NumInputs(n)} : n \in Nodes}
Outputs == UNION {{<<n, k>> : k \in 1..NumOutputs(n)} : n \in Nodes}

\* Python's None; a present value v is <<v>>.
None == <<>>
Some(v) == <<v>>

\* NodeType (node.py:6-10)
INPUT == 0
PROCESS == 1
OUTPUT == 2
IPO == 3

VARIABLES
    nodes,        \* NodeEditor._nodes: the node list, in insertion order
    children,     \* OutputNodeAttribute._children, per output
    parent,       \* InputNodeAttribute._parent, per input
    buffer,       \* InputNodeAttribute.buffer, per input
    last_data,    \* InputNodeAttribute.last_data, per input
    out_data,     \* OutputNodeAttribute._data, per output
    emits,        \* number of direct set_data calls so far (SpecConn)
    hist,         \* the last connection operations (history)
    priority,     \* Node.priority, per node
    sorter,       \* the locals of a running _topological_sort (SpecSort)
    node_type,    \* Node._node_type, per node
    self_execute, \* Node.self_execute, per node
    executed,     \* Node._executed, per node
    is_error,     \* Node.is_error, per node
    helpers,      \* what the helper closures of a node are bound to, per node
    ticks,        \* the locals of every process() call so far, in order
    stack,        \* the call stack of the running process(), outermost first
    outcome,      \* how the last process() call ended
    runs,         \* how often a node's process() was entered in this tick (history)
    got,          \* the value the last get_data of an input returned (history)
    record,       \* the dictionary save() returned, as edited since
    loaded,       \* the editor the last load() built, what it returned, the registry it used
    log,          \* the values delivered to and read from each input (history)
    manager       \* NodeManager.nodes, the calls made on the NodeManager (history)

attrVars == <<children, parent, buffer, last_data, out_data>>
nodeVars == <<node_type, self_execute, executed, is_error, helpers>>
tickVars == <<ticks, stack, outcome, runs, got>>
extVars == <<record, loaded, log, manager>>
vars ==
    <<nodes, children, parent, buffer, last_data, out_data, emits, hist, priority, sorter,
      node_type, self_execute, executed, is_error, helpers, ticks, stack, outcome, runs, got,
      record, loaded, log, manager>>

\* ------------------------------------------------------------------------
\* Sequence helpers (Python list operations)
\* ------------------------------------------------------------------------

Range(s) == {s[k] : k \in 1..Len(s)}
\* x in list
InSeq(x, s) == \E k \in 1..Len(s) : s[k] = x
\* index of the first occurrence of x in s (x is in s)
IndexOf(x, s) == CHOOSE k \in 1..Len(s) : s[k] = x /\ \A j \in 1..(k - 1) : s[j] # x
\* list.remove(x): removes the first occurrence
ListRemove(s, x) ==
    LET k == IndexOf(x, s)
    IN  [j \in 1..(Len(s) - 1) |-> IF j < k THEN s[j] ELSE s[j + 1]]
\* a bounded append that refuses the new item when the deque is full
DequeAppend_keeps_oldest(q, v, m) ==
    IF Len(q) >= m THEN q ELSE Append(q, v)

\* deque(maxlen=m).append(v): a full deque drops its oldest (leftmost) item
DequeAppend(q, v, m) ==
    IF m = 0 THEN q
    ELSE IF Len(q) >= m THEN Append(Tail(q), v)
    ELSE Append(q, v)

\* ------------------------------------------------------------------------
\* Attributes (node.py). The operations work on a record a of all
\* attributes' fields: children, parent, buffer, last_data, out_data.
\* ------------------------------------------------------------------------

Attrs ==
    [children |-> children, parent |-> parent, buffer |-> buffer,
     last_data |-> last_data, out_data |-> out_data]

SetAttrs(a) ==
    /\ children' = a.children
    /\ parent' = a.parent
    /\ buffer' = a.buffer
    /\ last_data' = a.last_data
    /\ out_data' = a.out_data

\* InputNodeAttribute.set_parent
set_parent(a, i, p) == [a EXCEPT !.parent[i] = p]

\* OutputNodeAttribute.add_child (the dpg link item is not modelled)
add_child(a, o, i) ==
    IF ~InSeq(i, a.children[o])
    THEN LET a1 == set_parent(a, i, o)
         IN  [a1 EXCEPT !.children[o] = Append(@, i)]
    ELSE a

\* a remove_child that forgets to clear the child's parent
remove_child_keeps_parent(a, o, i) ==
    IF InSeq(i, a.children[o])
    THEN [a EXCEPT !.children[o] = ListRemove(@, i)]
    ELSE a

\* a remove_child that empties the whole child list
remove_child_drops_all(a, o, i) ==
    IF InSeq(i, a.children[o])
    THEN LET a1 == [a EXCEPT !.children[o] = <<>>]
         IN  set_parent(a1, i, None)
    ELSE a

\* a remove_child without the membership test
remove_child_unguarded(a, o, i) ==
    LET a1 == [a EXCEPT !.children[o] = ListRemove(@, i)]
    IN  set_parent(a1, i, None)

\* OutputNodeAttribute.remove_child. Its last statement, child._data = None,
\* sets a field of the input that nothing reads: the input's values are in
\* buffer and last_data, which stay as they are.
remove_child(a, o, i) ==
    IF InSeq(i, a.children[o])
    THEN LET a1 == [a EXCEPT !.children[o] = ListRemove(@, i)]
         IN  set_parent(a1, i, None)
    ELSE a

\* for child in cs: child.buffer.append(v)
RECURSIVE AppendToAll(_, _, _)
AppendToAll(buf, cs, v) ==
    IF cs = <<>> THEN buf
    ELSE AppendToAll([buf EXCEPT ![Head(cs)] = DequeAppend(@, v, buffersize)], Tail(cs), v)

\* a set_data that stores the value and delivers it to no child
set_data_undelivered(a, o, v) ==
    [a EXCEPT !.out_data[o] = v]

\* OutputNodeAttribute.set_data
set_data(a, o, v) ==
    [a EXCEPT !.out_data[o] = v,
              !.buffer = AppendToAll(a.buffer, a.children[o], v)]

\* for child in cs: self.remove_child(child)
RECURSIVE RemoveAll(_, _, _)
RemoveAll(a, o, cs) ==
    IF cs = <<>> THEN a
    ELSE RemoveAll(remove_child(a, o, Head(cs)), o, Tail(cs))

\* OutputNodeAttribute.clear_connections
clear_connections(a, o) ==
    LET a1 == RemoveAll(a, o, a.children[o])
    IN  [a1 EXCEPT !.children[o] = <<>>, !.out_data[o] = None]

\* a get_data that takes the newest buffered value
get_data_newest(a, i) ==
    IF a.buffer[i] # <<>>
    THEN [val |-> a.buffer[i][Len(a.buffer[i])],
          attrs |-> [a EXCEPT !.buffer[i] = SubSeq(@, 1, Len(@) - 1)]]
    ELSE [val |-> a.last_data[i], attrs |-> a]

\* InputNodeAttribute.get_data: the value returned and the attributes after
get_data(a, i) ==
    IF a.buffer[i] # <<>>
    THEN [val |-> Head(a.buffer[i]), attrs |-> [a EXCEPT !.buffer[i] = Tail(@)]]
    ELSE [val |-> a.last_data[i], attrs |-> a]

\* InputNodeAttribute.clear_connection
clear_connection(a, i) ==
    LET a1 == IF a.parent[i] # None THEN remove_child(a, a.parent[i], i) ELSE a
    IN  [a1 EXCEPT !.parent[i] = None, !.buffer[i] = <<>>, !.last_data[i] = None]

RECURSIVE ClearInputs(_, _)
ClearInputs(a, is) ==
    IF is = <<>> THEN a ELSE ClearInputs(clear_connection(a, Head(is)), Tail(is))

RECURSIVE ClearOutputs(_, _)
ClearOutputs(a, os) ==
    IF os = <<>> THEN a ELSE ClearOutputs(clear_connections(a, Head(os)), Tail(os))

\* Node.clear_all_connections
clear_all_connections(a, n) ==
    ClearOutputs(ClearInputs(a, input_attributes(n)), output_attributes(n))

\* a connect that leaves the input's earlier connection in place
link_keeps_earlier(a, o, i) == add_child(a, o, i)

\* NodeEditor._link_callback (and the connection loop of load): the connect
link(a, o, i) == add_child(clear_connection(a, i), o, i)

\* no process() call was made yet: Node.__init__ for the execution state
NoOutcome == [kind |-> "none", list |-> FALSE, value |-> None, error |-> "none"]

NoTick ==
    /\ executed = [n \in Nodes |-> FALSE]
    /\ is_error = [n \in Nodes |-> FALSE]
    /\ helpers = [n \in Nodes |-> None]
    /\ ticks = <<>>
    /\ stack = <<>>
    /\ outcome = NoOutcome
    /\ runs = [n \in Nodes |-> 0]
    /\ got = [i \in Inputs |-> None]

\* load() not called yet
NoLoad == [result |-> "none", nodes |-> <<>>, children |-> <<>>, parent |-> <<>>, registry |-> {}]

\* nothing delivered to an input, nothing read from it
NoLog ==
    [delivered |-> [i \in Inputs |-> <<>>],
     taken |-> [i \in Inputs |-> <<>>],
     dropped |-> [i \in Inputs |-> 0],
     idle |-> [i \in Inputs |-> None],
     sent |-> [o \in Outputs |-> None],
     links |-> 0]

\* NodeManager.__init__: nothing registered, no call made
NoManager ==
    [nodes |-> <<>>, events |-> <<>>, op |-> "none", id |-> "", ret |-> None, pre |-> <<>>]

NoExt ==
    /\ record = None
    /\ loaded = NoLoad
    /\ log = NoLog
    /\ manager = NoManager

NoHist == [op |-> "none", o |-> None, i |-> None, pre |-> <<>>, was |-> None, val |-> None]

\* no connections, nothing emitted
FreshAttrs ==
    [children |-> [o \in Outputs |-> <<>>],
     parent |-> [i \in Inputs |-> None],
     buffer |-> [i \in Inputs |-> <<>>],
     last_data |-> [i \in Inputs |-> None],
     out_data |-> [o \in Outputs |-> None]]

\* ------------------------------------------------------------------------
\* Scheduling (widget.py: _build_execution_graph, _topological_sort)
\* ------------------------------------------------------------------------

\* Largest priority a node is given.
MaxPriority == 1

\* the node whose _input_attributes hold input i
Owner(i) == i[1]

\* position of node n in the node list ns
ListIndex(n, ns) == IndexOf(n, ns)

\* for input_attr in cs: the target of the node list that owns it, if any
RECURSIVE Targets(_, _)
Targets(cs, ns) ==
    IF cs = <<>> THEN <<>>
    ELSE IF InSeq(Owner(Head(cs)), ns)
         THEN <<Owner(Head(cs))>> \o Targets(Tail(cs), ns)
         ELSE Targets(Tail(cs), ns)

\* for output_attr in os: for input_attr in output_attr._children: ...
RECURSIVE TargetsOfOutputs(_, _, _)
TargetsOfOutputs(a, os, ns) ==
    IF os = <<>> THEN <<>>
    ELSE Targets(a.children[Head(os)], ns) \o TargetsOfOutputs(a, Tail(os), ns)

\* number of occurrences of x in s
Count(x, s) == Cardinality({k \in 1..Len(s) : s[k] = x})

RECURSIVE SumOver(_, _, _)
SumOver(g, x, ns) ==
    IF ns = <<>> THEN 0 ELSE Count(x, g[Head(ns)]) + SumOver(g, x, Tail(ns))

\* a _build_execution_graph that counts an upstream node once, however many
\* connections it has into the target
in_degree_per_node(g, ns) ==
    [t \in Nodes |-> Cardinality({k \in 1..Len(ns) : InSeq(t, g[ns[k]])})]

\* in_degree[target] += 1 for every edge appended to graph[node]
in_degree_of(g, ns) == [t \in Nodes |-> SumOver(g, t, ns)]

\* NodeEditor._build_execution_graph: graph (node -> dependents, one entry per
\* connection) and in_degree
build_execution_graph(a, ns) ==
    LET g == [n \in Nodes |->
                IF InSeq(n, ns) THEN TargetsOfOutputs(a, output_attributes(n), ns) ELSE <<>>]
    IN  [graph |-> g, in_degree |-> in_degree_of(g, ns)]

\* getattr(node, 'priority', 0) or 0
PriorityOf(prio, n) == IF prio[n] = None THEN 0 ELSE prio[n][1]

\* heap entries are (-priority, insertion_order, node); tuples compare
\* lexicographically, and insertion_order is unique
EntryLess(e, f) == e[1] < f[1] \/ (e[1] = f[1] /\ e[2] < f[2])

heappush(h, e) == h \cup {e}

\* a heappop that ignores the priority: first in, first out
heappop_fifo(h) == CHOOSE e \in h : \A f \in h \ {e} : e[2] < f[2]

\* a heappop that breaks ties by taking the entry pushed last
heappop_lifo(h) ==
    CHOOSE e \in h : \A f \in h \ {e} : e[1] < f[1] \/ (e[1] = f[1] /\ e[2] > f[2])

\* heapq.heappop: the smallest entry
heappop(h) == CHOOSE e \in h : \A f \in h \ {e} : EntryLess(e, f)

IdleSorter ==
    [pc |-> "idle", graph |-> [n \in Nodes |-> <<>>], in_degree |-> [n \in Nodes |-> 0],
     heap |-> {}, counter |-> 0, execution_order |-> <<>>, pushed |-> <<>>, result |-> <<>>]

\* heapq.heappush(heap, (-priority, counter, node)); counter += 1
Push(s, prio, n) ==
    [s EXCEPT !.heap = heappush(@, <<0 - PriorityOf(prio, n), s.counter, n>>),
              !.counter = @ + 1,
              !.pushed = Append(@, n)]

\* a seeding that pushes every node, whatever its in-degree
RECURSIVE Seed_all(_, _, _)
Seed_all(s, prio, ns) ==
    IF ns = <<>> THEN s ELSE Seed_all(Push(s, prio, Head(ns)), prio, Tail(ns))

\* a seeding that goes through the node list from its end
RECURSIVE Seed_reversed(_, _, _)
Seed_reversed(s, prio, ns) ==
    IF ns = <<>> THEN s
    ELSE LET s1 == Seed_reversed(s, prio, Tail(ns))
         IN  IF s1.in_degree[Head(ns)] = 0 THEN Push(s1, prio, Head(ns)) ELSE s1

\* for NID, UUID, node in self._nodes: if in_degree[node] == 0: push
RECURSIVE Seed(_, _, _)
Seed(s, prio, ns) ==
    IF ns = <<>> THEN s
    ELSE Seed(IF s.in_degree[Head(ns)] = 0 THEN Push(s, prio, Head(ns)) ELSE s, prio, Tail(ns))

\* _topological_sort up to the while loop
SortBegin(a, ns, prio) ==
    LET b == build_execution_graph(a, ns)
        s == [IdleSorter EXCEPT !.pc = "loop", !.graph = b.graph, !.in_degree = b.in_degree]
    IN  Seed(s, prio, ns)

\* a release that pushes a dependent as soon as one of its dependencies ran
ReleaseEarly(s, prio, d) ==
    LET s1 == [s EXCEPT !.in_degree[d] = @ - 1]
    IN  IF s.in_degree[d] > 0 /\ ~InSeq(d, s.pushed) THEN Push(s1, prio, d) ELSE s1

\* in_degree[dependent] -= 1; if in_degree[dependent] == 0: push
Release(s, prio, d) ==
    LET s1 == [s EXCEPT !.in_degree[d] = @ - 1]
    IN  IF s1.in_degree[d] = 0 THEN Push(s1, prio, d) ELSE s1

\* for dependent in graph[current]: ...
RECURSIVE ReleaseAll(_, _, _)
ReleaseAll(s, prio, ds) ==
    IF ds = <<>> THEN s ELSE ReleaseAll(Release(s, prio, Head(ds)), prio, Tail(ds))

\* one iteration of the while loop
SortPop(s, prio) ==
    LET e == heappop(s.heap)
        current == e[3]
        s1 == [s EXCEPT !.heap = @ \ {e}, !.execution_order = Append(@, current)]
    IN  ReleaseAll(s1, prio, s.graph[current])

\* entries of an execution order: a Node, or (the cycle fallback) an item
\* (NID, UUID, node) of _nodes, or (no_sort) the NID item[0] of an item
NodeEntry(n) == [kind |-> "node", node |-> n]
ItemEntry(n) == [kind |-> "item", node |-> n]
NidEntry(n) == [kind |-> "nid", node |-> n]

\* the check for cycles and the return
SortEnd(s, ns) ==
    [s EXCEPT !.pc = "done",
              !.result = IF Len(s.execution_order) # Len(ns)
                         THEN [k \in 1..Len(ns) |-> ItemEntry(ns[k])]
                         ELSE [k \in 1..Len(s.execution_order) |-> NodeEntry(s.execution_order[k])]]

RECURSIVE SortLoop(_, _, _)
SortLoop(s, ns, prio) ==
    IF s.heap = {} THEN SortEnd(s, ns) ELSE SortLoop(SortPop(s, prio), ns, prio)

\* NodeEditor._topological_sort, as process() calls it
topological_sort(a, ns, prio) == SortLoop(SortBegin(a, ns, prio), ns, prio).result

\* ------------------------------------------------------------------------
\* SpecSort: _topological_sort, step by step, on every graph over the nodes
\* ------------------------------------------------------------------------

\* all orders of the elements of a set
Perms(S) ==
    {s \in [1..Cardinality(S) -> S] : \A j, k \in 1..Cardinality(S) : j # k => s[j] # s[k]}

\* the child lists over the outputs os that agree with the parents p: every
\* output's children are the inputs whose parent it is, in any order
RECURSIVE ChildLists(_, _)
ChildLists(p, os) ==
    IF os = {} THEN {<<>>}
    ELSE LET o == CHOOSE x \in os : TRUE
         IN  {(o :> s) @@ f : s \in Perms({i \in Inputs : p[i] = o}), f \in ChildLists(p, os \ {o})}

\* the connection states the link callback can produce: every input has at
\* most one parent, whose children hold it once, in the order of connecting
WiredStates ==
    UNION {{[parent |-> p, children |-> c] : c \in ChildLists(p, Outputs)} :
             p \in [Inputs -> Outputs \cup {None}]}

Wired ==
    /\ \E w \in WiredStates : parent = w.parent /\ children = w.children
    /\ buffer = FreshAttrs.buffer
    /\ last_data = FreshAttrs.last_data
    /\ out_data = FreshAttrs.out_data

Priorities == {Some(p) : p \in 0..MaxPriority}

InitSort ==
    /\ nodes = [k \in 1..NumNodes |-> k]
    /\ Wired
    /\ emits = 0
    /\ hist = NoHist
    /\ priority \in [Nodes -> Priorities]
    /\ sorter = IdleSorter
    /\ node_type = [n \in Nodes |-> IPO]
    /\ self_execute = [n \in Nodes |-> FALSE]
    /\ NoTick
    /\ NoExt

SortStart ==
    /\ sorter.pc = "idle"
    /\ sorter' = SortBegin(Attrs, nodes, priority)
    /\ UNCHANGED <<nodes, attrVars, emits, hist, priority, nodeVars, tickVars, extVars>>

SortStep ==
    /\ sorter.pc = "loop"
    /\ sorter.heap # {}
    /\ sorter' = SortPop(sorter, priority)
    /\ UNCHANGED <<nodes, attrVars, emits, hist, priority, nodeVars, tickVars, extVars>>

SortFinish ==
    /\ sorter.pc = "loop"
    /\ sorter.heap = {}
    /\ sorter' = SortEnd(sorter, nodes)
    /\ UNCHANGED <<nodes, attrVars, emits, hist, priority, nodeVars, tickVars, extVars>>

NextSort == SortStart \/ SortStep \/ SortFinish

SpecSort == InitSort /\ [][NextSort]_vars

\* ------------------------------------------------------------------------
\* Scheduling: properties (SpecSort)
\* ------------------------------------------------------------------------

\* some output of node a is the parent of some input of node b
Connected(a, b) ==
    \E i \in Inputs : Owner(i) = b /\ parent[i] # None /\ parent[i][1] = a

\* the nodes reached from the set S in 1..k steps along connections
RECURSIVE ReachedIn(_, _)
ReachedIn(S, k) ==
    IF k = 0 THEN {}
    ELSE LET T == {b \in Nodes : \E a \in S : Connected(a, b)}
         IN  T \cup ReachedIn(T, k - 1)

\* the connections among the nodes form a cycle
Cyclic == \E n \in Nodes : n \in ReachedIn({n}, NumNodes)

\* the positions of node n in an execution order r
Positions(n, r) == {k \in 1..Len(r) : r[k] = NodeEntry(n)}
Pos(n, r) == CHOOSE k \in Positions(n, r) : TRUE

\* C1: for an acyclic graph the execution order _topological_sort returns
\* contains every node exactly once and places every node after all nodes
\* that have a connection into it.
C1_TopologicalOrder ==
    (sorter.pc = "done" /\ ~Cyclic) =>
        /\ Len(sorter.result) = Len(nodes)
        /\ \A n \in Range(nodes) : Cardinality(Positions(n, sorter.result)) = 1
        /\ \A a, b \in Range(nodes) :
               Connected(a, b) => Pos(a, sorter.result) < Pos(b, sorter.result)

\* an acyclic graph is sorted in which the last node has connections from both
\* other nodes and the order differs from the node list
C1_Witness ==
    /\ sorter.pc = "done"
    /\ ~Cyclic
    /\ Connected(1, NumNodes) /\ Connected(2, NumNodes)
    /\ sorter.execution_order # nodes

\* nodes not yet scheduled of which every upstream node is scheduled
Ready(s) ==
    {n \in Range(nodes) :
        /\ ~InSeq(n, s.execution_order)
        /\ \A a \in Range(nodes) : Connected(a, n) => InSeq(a, s.execution_order)}

\* this step is an iteration of the scheduling loop
PopStep ==
    /\ sorter.pc = "loop"
    /\ sorter'.pc = "loop"
    /\ Len(sorter'.execution_order) = Len(sorter.execution_order) + 1

Scheduled == sorter'.execution_order[Len(sorter'.execution_order)]

\* C5: at every step of scheduling the node appended to the execution order
\* is ready (every node it depends on is scheduled) and has the highest
\* priority among the nodes ready at that step.
C5_HighestPriorityReady ==
    [][PopStep =>
          /\ Scheduled \in Ready(sorter)
          /\ \A m \in Ready(sorter) :
                 PriorityOf(priority, m) <= PriorityOf(priority, Scheduled)]_vars

\* a node was scheduled first although a node added before it, of a lower
\* priority, was ready from the start and still waits
C5_Witness ==
    /\ sorter.pc = "loop"
    /\ Len(sorter.execution_order) = 1
    /\ \E m \in Ready(sorter) :
           /\ \A a \in Range(nodes) : ~Connected(a, m)
           /\ PriorityOf(priority, m) < PriorityOf(priority, sorter.execution_order[1])
           /\ ListIndex(m, nodes) < ListIndex(sorter.execution_order[1], nodes)

\* C6 as stated: among ready nodes of equal priority, the node scheduled is
\* the one added to the graph first.
C6_TiesByGraphOrder ==
    [][PopStep =>
          \A m \in Ready(sorter) \ {Scheduled} :
              PriorityOf(priority, m) = PriorityOf(priority, Scheduled)
                  => ListIndex(Scheduled, nodes) < ListIndex(m, nodes)]_vars

\* C6, amended: among ready nodes of equal priority, the node scheduled is
\* the one that became ready (entered the ready queue) first; the nodes ready
\* when scheduling starts enter the queue in the order they were added to the
\* graph.
C6_TiesByReadyOrder ==
    [][PopStep =>
          /\ \A m \in Ready(sorter) \ {Scheduled} :
                 PriorityOf(priority, m) = PriorityOf(priority, Scheduled)
                     => IndexOf(Scheduled, sorter.pushed) < IndexOf(m, sorter.pushed)
          /\ \A x, y \in Range(nodes) :
                 (/\ \A a \in Range(nodes) : ~Connected(a, x) /\ ~Connected(a, y)
                  /\ ListIndex(x, nodes) < ListIndex(y, nodes))
                     => IndexOf(x, sorter.pushed) < IndexOf(y, sorter.pushed)]_vars

\* a node was scheduled after a node of the same priority that was added to
\* the graph later, although both waited in the ready queue together
C6_Witness ==
    /\ sorter.pc = "done"
    /\ \E j, k \in 1..Len(sorter.execution_order) :
          LET m == sorter.execution_order[j]
              n == sorter.execution_order[k]
          IN  /\ j < k
              /\ PriorityOf(priority, m) = PriorityOf(priority, n)
              /\ ListIndex(n, nodes) < ListIndex(m, nodes)
              /\ \A a \in Range(nodes) :
                     Connected(a, n) => IndexOf(a, sorter.execution_order) < j

\* ------------------------------------------------------------------------
\* SpecConn: the connection protocol, driven from outside the tick
\* ------------------------------------------------------------------------

\* NodeEditor.__init__ and the construction of the nodes, all added in order
InitConn ==
    /\ nodes = [k \in 1..NumNodes |-> k]
    /\ children = FreshAttrs.children
    /\ parent = FreshAttrs.parent
    /\ buffer = FreshAttrs.buffer
    /\ last_data = FreshAttrs.last_data
    /\ out_data = FreshAttrs.out_data
    /\ emits = 0
    /\ hist = NoHist
    /\ priority = [n \in Nodes |-> Some(0)]
    /\ sorter = IdleSorter
    /\ node_type = [n \in Nodes |-> IPO]
    /\ self_execute = [n \in Nodes |-> FALSE]
    /\ NoTick
    /\ NoExt

\* _link_callback(output, input)
LinkCallback(o, i) ==
    /\ SetAttrs(link(Attrs, o, i))
    /\ hist' = IF ~InSeq(i, children[o])
               THEN [NoHist EXCEPT !.op = "connect", !.o = o, !.i = i, !.pre = children[o],
                                   !.was = parent[i]]
               ELSE NoHist
    /\ UNCHANGED <<nodes, emits, priority, sorter, nodeVars, tickVars, extVars>>

\* _delink_callback(output, input), link deletion: output.remove_child(input)
DelinkCallback(o, i) ==
    /\ SetAttrs(remove_child(Attrs, o, i))
    /\ hist' = IF hist.op = "connect" /\ hist.o = o /\ hist.i = i
               THEN [hist EXCEPT !.op = "connect_disconnect", !.was = None]
               ELSE IF InSeq(i, children[o])
               THEN [NoHist EXCEPT !.op = "disconnect", !.o = o, !.i = i]
               ELSE [NoHist EXCEPT !.op = "disconnect_absent", !.o = o, !.i = i]
    /\ UNCHANGED <<nodes, emits, priority, sorter, nodeVars, tickVars, extVars>>

\* input.clear_connection()
ClearConnection(i) ==
    /\ SetAttrs(clear_connection(Attrs, i))
    /\ hist' = NoHist
    /\ UNCHANGED <<nodes, emits, priority, sorter, nodeVars, tickVars, extVars>>

\* output.clear_connections()
ClearConnections(o) ==
    /\ SetAttrs(clear_connections(Attrs, o))
    /\ hist' = NoHist
    /\ UNCHANGED <<nodes, emits, priority, sorter, nodeVars, tickVars, extVars>>

\* node.clear_all_connections()
ClearAllConnections(n) ==
    /\ SetAttrs(clear_all_connections(Attrs, n))
    /\ hist' = NoHist
    /\ UNCHANGED <<nodes, emits, priority, sorter, nodeVars, tickVars, extVars>>

\* output.set_data(v): the k-th call emits the value k
Emit(o) ==
    /\ emits < MaxEmits
    /\ emits' = emits + 1
    /\ SetAttrs(set_data(Attrs, o, Some(emits + 1)))
    /\ hist' = IF hist.op \in {"connect", "disconnect", "connect_disconnect"} THEN hist ELSE NoHist
    /\ UNCHANGED <<nodes, priority, sorter, nodeVars, tickVars, extVars>>

\* input.get_data()
Read(i) ==
    LET r == get_data(Attrs, i)
    IN  /\ SetAttrs(r.attrs)
        /\ hist' = IF hist.op \in {"disconnect", "connect_disconnect"} /\ hist.i = i
                   THEN [NoHist EXCEPT !.op = "disconnect_read", !.i = i, !.val = r.val]
                   ELSE NoHist
        /\ UNCHANGED <<nodes, emits, priority, sorter, nodeVars, tickVars, extVars>>

NextConn ==
    \/ \E o \in Outputs, i \in Inputs : LinkCallback(o, i)
    \/ \E o \in Outputs, i \in Inputs : DelinkCallback(o, i)
    \/ \E i \in Inputs : ClearConnection(i)
    \/ \E o \in Outputs : ClearConnections(o)
    \/ \E n \in Nodes : ClearAllConnections(n)
    \/ \E o \in Outputs : Emit(o)
    \/ \E i \in Inputs : Read(i)

SpecConn == InitConn /\ [][NextConn]_vars

\* ------------------------------------------------------------------------
\* Connection protocol: properties (SpecConn)
\* ------------------------------------------------------------------------

\* C7: after any sequence of link callbacks, remove_child, clear_connection,
\* clear_connections and clear_all_connections, an input's parent is the
\* output o if and only if o's children contain that input.
C7_Mirrored ==
    \A i \in Inputs, o \in Outputs : (parent[i] = o) <=> InSeq(i, children[o])

\* a disconnect has just removed one connection while another input is connected
C7_Witness ==
    /\ hist.op = "disconnect"
    /\ \E i \in Inputs : parent[i] # None /\ InSeq(i, children[parent[i]])

\* C8: connect then disconnect on a pair that was not connected leaves the
\* input without parent, the output without that child, and the output's
\* other connections as they were before the connect.
C8_ConnectDisconnectRestores ==
    hist.op = "connect_disconnect" =>
        /\ parent[hist.i] = None
        /\ ~InSeq(hist.i, children[hist.o])
        /\ children[hist.o] = hist.pre

\* the pair was connected and disconnected on an output that has another child
C8_Witness ==
    hist.op = "connect_disconnect" /\ hist.pre # <<>>

\* C9: after remove_child(output, input) the next get_data of the input
\* yields no buffered value.
C9_DisconnectDiscardsBuffered ==
    hist.op = "disconnect_read" => hist.val = None

\* the outputs whose children contain input i
Holders(i) == {o \in Outputs : InSeq(i, children[o])}

\* C17: an input is never among the children of two outputs; after the link
\* callback connected output o to input i, which was not a child of o, the
\* parent of i is o, o's children contain i, and no other output's children
\* do (neither the output i was connected to before).
C17_SingleInbound ==
    /\ \A i \in Inputs : Cardinality(Holders(i)) <= 1
    /\ hist.op = "connect" =>
          /\ parent[hist.i] = hist.o
          /\ Holders(hist.i) = {hist.o}

\* the link callback has just moved an input from one output to another
C17_Witness ==
    /\ hist.op = "connect"
    /\ hist.was # None
    /\ hist.was # hist.o
    /\ parent[hist.i] = hist.o
    /\ ~InSeq(hist.i, children[hist.was])

\* ------------------------------------------------------------------------
\* SpecBuffer: values emitted to and read from the inputs' buffers
\* ------------------------------------------------------------------------

\* set_data calls in a run of SpecBuffer: the k-th call emits the value k.
MaxValues == 3
\* Link callbacks in a run of SpecBuffer.
MaxLinks == 2

InitBuffer == InitConn

\* the log of input i starts again: its buffer was cleared
Forget(l, i) ==
    [l EXCEPT !.delivered[i] = <<>>, !.taken[i] = <<>>, !.dropped[i] = 0, !.idle[i] = None]

\* the log after value v went to the inputs cs, whose buffers were buf
RECURSIVE Deliver(_, _, _, _)
Deliver(l, cs, v, buf) ==
    IF cs = <<>> THEN l
    ELSE LET i == Head(cs)
             l1 == [l EXCEPT !.delivered[i] = Append(@, v),
                             !.dropped[i] = IF Len(buf[i]) >= buffersize THEN @ + 1 ELSE @,
                             !.idle[i] = None]
         IN  Deliver(l1, Tail(cs), v, buf)

\* _link_callback(output, input)
Connect(o, i) ==
    /\ log.links < MaxLinks
    /\ SetAttrs(link(Attrs, o, i))
    /\ log' = [Forget(log, i) EXCEPT !.links = @ + 1]
    /\ UNCHANGED <<nodes, emits, hist, priority, sorter, nodeVars, tickVars, record, loaded, manager>>

\* _delink_callback(output, input)
Disconnect(o, i) ==
    /\ InSeq(i, children[o])
    /\ SetAttrs(remove_child(Attrs, o, i))
    /\ log' = [log EXCEPT !.idle[i] = None]
    /\ UNCHANGED <<nodes, emits, hist, priority, sorter, nodeVars, tickVars, record, loaded, manager>>

\* output.set_data(v)
SetData(o) ==
    /\ emits < MaxValues
    /\ emits' = emits + 1
    /\ SetAttrs(set_data(Attrs, o, Some(emits + 1)))
    /\ log' = [Deliver(log, children[o], Some(emits + 1), buffer) EXCEPT
                 !.sent[o] = Some(emits + 1)]
    /\ UNCHANGED <<nodes, hist, priority, sorter, nodeVars, tickVars, record, loaded, manager>>

\* input.get_data()
GetData(i) ==
    LET r == get_data(Attrs, i)
    IN  /\ SetAttrs(r.attrs)
        /\ log' = IF buffer[i] # <<>>
                  THEN [log EXCEPT !.taken[i] = Append(@, r.val)]
                  ELSE IF log.delivered[i] # <<>>
                  THEN [log EXCEPT !.idle[i] = Some(r.val)]
                  ELSE log
        /\ UNCHANGED <<nodes, emits, hist, priority, sorter, nodeVars, tickVars, record, loaded, manager>>

NextBuffer ==
    \/ \E o \in Outputs, i \in Inputs : Connect(o, i)
    \/ \E o \in Outputs, i \in Inputs : Disconnect(o, i)
    \/ \E o \in Outputs : SetData(o)
    \/ \E i \in Inputs : GetData(i)

SpecBuffer == InitBuffer /\ [][NextBuffer]_vars

\* the last n items of sequence q
Suffix(q, n) == SubSeq(q, Len(q) - n + 1, Len(q))

\* C18: set_data stores the value as the output's last value and appends it
\* to the buffer of every input connected at that moment; as long as an
\* input's buffer has not overflowed, the values read from it followed by
\* the values still buffered are the values delivered to it, in emission
\* order: every delivered value is read once, first in first out.
C18_EmitDeliversFifo ==
    /\ \A o \in Outputs : out_data[o] = log.sent[o]
    /\ \A i \in Inputs :
         log.dropped[i] = 0 => log.taken[i] \o buffer[i] = log.delivered[i]

\* two values were delivered to an input and read in emission order
C18_Witness ==
    \E i \in Inputs :
        /\ log.dropped[i] = 0
        /\ Len(log.delivered[i]) = 2
        /\ log.taken[i] = log.delivered[i]
        /\ log.taken[i][1] # log.taken[i][2]

\* C19: a buffer never holds more than buffersize values; a value emitted to
\* a full buffer drops the oldest one, so the buffer holds the most recently
\* delivered unread values, in order.
C19_BoundedBuffer ==
    \A i \in Inputs :
        /\ Len(buffer[i]) <= buffersize
        /\ Len(log.delivered[i]) = Len(log.taken[i]) + log.dropped[i] + Len(buffer[i])
        /\ buffer[i] = Suffix(log.delivered[i], Len(buffer[i]))

\* a value was emitted to a full buffer: the oldest value is gone
C19_Witness ==
    \E i \in Inputs :
        /\ log.dropped[i] = 1
        /\ log.taken[i] = <<>>
        /\ Len(log.delivered[i]) = buffersize + 1
        /\ buffer[i] = Tail(log.delivered[i])

\* C20: a read of a connected input whose buffer is empty returns the value
\* most recently delivered to the input.
C20_EmptyReadReturnsLast ==
    \A i \in Inputs :
        (parent[i] # None /\ log.idle[i] # None /\ log.delivered[i] # <<>>)
        => log.idle[i][1] = log.delivered[i][Len(log.delivered[i])]

\* ------------------------------------------------------------------------
\* One tick (widget.py: process and the helpers; node.py: Node.execute)
\* ------------------------------------------------------------------------

\* Frames the call stack may hold: the interpreter's recursion limit.
MaxDepth == 7
\* Largest argument of execute_connected_next_nodes_multiple.
MaxTimes == 2

\* everything a tick reads and writes
Machine ==
    [attrs |-> Attrs, executed |-> executed, is_error |-> is_error, helpers |-> helpers,
     ticks |-> ticks, stack |-> stack, outcome |-> outcome, runs |-> runs, got |-> got]

SetMachine(m) ==
    /\ SetAttrs(m.attrs)
    /\ executed' = m.executed
    /\ is_error' = m.is_error
    /\ helpers' = m.helpers
    /\ ticks' = m.ticks
    /\ stack' = m.stack
    /\ outcome' = m.outcome
    /\ runs' = m.runs
    /\ got' = m.got

\* A frame of the call stack. f: main (the loop of process), proc (a node's
\* process inside Node.execute), next (_execute_next_nodes), conn
\* (_execute_connected_next_nodes), ens (_ensure_dependencies_executed),
\* multi (_execute_connected_next_nodes_multiple). t: the process() call
\* whose locals the frame works on; idx: current_index; i: the loop position;
\* list: the nodes the loop runs over; res: the results collected; who: the
\* nodes the results in res came from (history).
Frame(f, t) ==
    [f |-> f, t |-> t, idx |-> 0, node |-> 0, i |-> 0, list |-> <<>>, res |-> <<>>,
     who |-> <<>>, times |-> 0, stage |-> "loop", arg |-> None, val |-> None]

Top(m) == m.stack[Len(m.stack)]
SetTop(m, fr) == [m EXCEPT !.stack[Len(m.stack)] = fr]
Pop(m) == [m EXCEPT !.stack = SubSeq(@, 1, Len(@) - 1)]

\* the node a frame is executing inside its try block, if any
TriedNode(m, fr) ==
    IF fr.f = "main" THEN <<m.ticks[fr.t].order[fr.i].node>>
    ELSE IF fr.f = "next" /\ fr.stage = "exec" THEN <<m.ticks[fr.t].order[fr.i].node>>
    ELSE IF fr.f \in {"conn", "ens"} /\ fr.stage = "exec" THEN <<fr.list[fr.i]>>
    ELSE <<>>

Raised(err) == [kind |-> "raised", list |-> FALSE, value |-> None, error |-> err]

\* an exception that leaves process() without any node being marked
Raise_unmarked(m, err) ==
    [m EXCEPT !.stack = <<>>, !.outcome = Raised(err)]

\* an exception that only the innermost except block marks its node for
Raise_innermost(m, err) ==
    LET tried == {k \in 1..Len(m.stack) : TriedNode(m, m.stack[k]) # <<>>}
        marked == {n \in Nodes : \E k \in tried :
                      /\ \A j \in tried : j <= k
                      /\ TriedNode(m, m.stack[k]) = <<n>>}
    IN  [m EXCEPT !.is_error = [n \in Nodes |-> @[n] \/ n \in marked],
                  !.stack = <<>>,
                  !.outcome = Raised(err)]

\* An exception leaves process(): every except block on the way calls
\* setTitleError on its node (Node.setTitleError: is_error = True) and
\* re-raises.
Raise(m, err) ==
    LET marked == {n \in Nodes : \E k \in 1..Len(m.stack) : TriedNode(m, m.stack[k]) = <<n>>}
    IN  [m EXCEPT !.is_error = [n \in Nodes |-> @[n] \/ n \in marked],
                  !.stack = <<>>,
                  !.outcome = Raised(err)]

\* a call: one more frame, or RecursionError at the recursion limit
PushFrame(m, fr) ==
    IF Len(m.stack) >= MaxDepth THEN Raise(m, "RecursionError")
    ELSE [m EXCEPT !.stack = Append(@, fr)]

\* the argument of node.execute, by node type
ArgFor(type, data) == IF type = INPUT THEN data
                      ELSE IF type = PROCESS THEN None
                      ELSE IF type = OUTPUT THEN None
                      ELSE data

\* whether the call site appends the result to final_data
Collects(f, type) ==
    IF type = INPUT \/ type = PROCESS THEN FALSE
    ELSE IF type = OUTPUT THEN TRUE
    ELSE f = "main"

\* a call site that adds the node to executed_nodes and leaves its
\* execution_count alone
AfterExecute_uncounted(m, result) ==
    LET fr == Top(m)
        n == TriedNode(m, fr)[1]
        m1 == [m EXCEPT
                 !.ticks[fr.t].final_data =
                     IF Collects(fr.f, node_type[n]) THEN Append(@, result) ELSE @,
                 !.ticks[fr.t].executed_nodes = @ \cup {n}]
    IN  SetTop(m1, [fr EXCEPT !.stage = "loop",
                              !.res = IF fr.f \in {"next", "conn"} THEN Append(@, result) ELSE @,
                              !.who = IF fr.f \in {"next", "conn"} THEN Append(@, n) ELSE @])

\* the statements after node.execute returned result, at the call site on top
\* of the stack: final_data, executed_nodes, execution_count, next_results
AfterExecute(m, result) ==
    LET fr == Top(m)
        n == TriedNode(m, fr)[1]
        m1 == [m EXCEPT
                 !.ticks[fr.t].final_data =
                     IF Collects(fr.f, node_type[n]) THEN Append(@, result) ELSE @,
                 !.ticks[fr.t].executed_nodes = @ \cup {n},
                 !.ticks[fr.t].execution_count[n] = @ + 1]
    IN  SetTop(m1, [fr EXCEPT !.stage = "loop",
                              !.res = IF fr.f \in {"next", "conn"} THEN Append(@, result) ELSE @,
                              !.who = IF fr.f \in {"next", "conn"} THEN Append(@, n) ELSE @])

\* a Node.execute that returns without setting _executed
ProcFinish_unflagged(m) ==
    LET fr == Top(m)
        m1 == [m EXCEPT !.ticks[fr.t].results = Append(@, [node |-> fr.node, val |-> fr.val])]
    IN  AfterExecute(Pop(m1), fr.val)

\* Node.execute after self.process(data) returned: _executed = True, return
\* (results: the history of what the runs of this process() call returned)
ProcFinish(m) ==
    LET fr == Top(m)
        m1 == [m EXCEPT !.executed[fr.node] = TRUE,
                        !.ticks[fr.t].results = Append(@, [node |-> fr.node, val |-> fr.val])]
    IN  AfterExecute(Pop(m1), fr.val)

\* what the last finished run of n returned, if a run of n has finished
RECURSIVE LastResult(_, _)
LastResult(rs, n) ==
    IF rs = <<>> THEN None
    ELSE IF rs[Len(rs)].node = n THEN Some(rs[Len(rs)].val)
    ELSE LastResult(SubSeq(rs, 1, Len(rs) - 1), n)

\* Node.execute on a node whose _executed is set: return data (memo: the
\* history of these calls, with what the node's last run had returned)
Memoized(m, n, arg) ==
    LET fr == Top(m)
    IN  [m EXCEPT !.ticks[fr.t].memo =
                     Append(@, [node |-> n, val |-> arg,
                                prior |-> LastResult(m.ticks[fr.t].results, n)])]

\* node.execute(arg) at the call site on top of the stack
Call(m, n) ==
    LET fr == Top(m)
        arg == ArgFor(node_type[n], m.ticks[fr.t].data)
    IN  IF m.executed[n] THEN AfterExecute(Memoized(m, n, arg), arg)
        ELSE IF Len(m.stack) >= MaxDepth THEN Raise(m, "RecursionError")
        ELSE [m EXCEPT !.runs[n] = @ + 1,
                       !.stack = Append(@, [Frame("proc", fr.t) EXCEPT !.node = n, !.arg = arg])]

\* a helper returned value to the frame that called it
HelperReturn(m, value) ==
    LET m1 == Pop(m)
        fr == Top(m1)
    IN  CASE fr.f = "proc" -> ProcFinish(m1)
          [] fr.f = "multi" -> SetTop(m1, [fr EXCEPT !.res = Append(@, value),
                                                     !.who = Append(@, Top(m).who)])
          [] fr.f = "conn" -> SetTop(m1, [fr EXCEPT !.stage = "ensured"])
          [] fr.f = "ens" -> SetTop(m1, [fr EXCEPT !.stage = "recd"])

\* next_nodes without the repeated nodes
RECURSIVE Dedup(_, _)
Dedup(s, acc) ==
    IF s = <<>> THEN acc
    ELSE Dedup(Tail(s), IF InSeq(Head(s), acc) THEN acc ELSE Append(acc, Head(s)))

\* NodeEditor._get_connected_next_nodes
get_connected_next_nodes(a, ns, n) ==
    Dedup(TargetsOfOutputs(a, output_attributes(n), ns), <<>>)

RECURSIVE PastOf(_, _, _)
PastOf(a, ns, is) ==
    IF is = <<>> THEN <<>>
    ELSE LET p == a.parent[Head(is)]
         IN  IF p # None /\ InSeq(p[1], ns)
             THEN <<p[1]>> \o PastOf(a, ns, Tail(is))
             ELSE PastOf(a, ns, Tail(is))

\* NodeEditor._get_connected_past_nodes
get_connected_past_nodes(a, ns, n) == PastOf(a, ns, input_attributes(n))

\* ---- the processing functions of the nodes (Node.process overridden) ----

\* x = attr.get_data() for every input attribute, in order
RECURSIVE ReadInputs(_, _)
ReadInputs(r, is) ==
    IF is = <<>> THEN r
    ELSE LET g == get_data(r.attrs, Head(is))
         IN  ReadInputs([attrs |-> g.attrs,
                         got |-> [r.got EXCEPT ![Head(is)] = Some(g.val)],
                         vals |-> Append(r.vals, g.val)], Tail(is))

\* attr.set_data(v) for every output attribute, in order
RECURSIVE EmitOutputs(_, _, _)
EmitOutputs(a, os, v) ==
    IF os = <<>> THEN a ELSE EmitOutputs(set_data(a, Head(os), v), Tail(os), v)

RECURSIVE Total(_)
Total(vals) ==
    IF vals = <<>> THEN 0
    ELSE (IF Head(vals) = None THEN 0 ELSE Head(vals)[1]) + Total(Tail(vals))

\* what a node received: the sum of the values read, None if it read none
Received(vals) ==
    IF \A k \in 1..Len(vals) : vals[k] = None THEN None ELSE Some(Total(vals))

\* An Input or InputProcessOutput node passes the external input on (Src), a
\* Process node doubles what it received (Double, x * 2), an Output node
\* returns what it received (Sink). None * 2 raises TypeError.
UserRaises(type, vals) == type = PROCESS /\ Received(vals) = None

UserValue(type, arg, vals) ==
    IF type = PROCESS THEN Some(2 * Received(vals)[1])
    ELSE IF type = OUTPUT THEN Received(vals)
    ELSE arg

\* process(data) of node n up to its helper call or return: reads the inputs,
\* computes, emits the value on the outputs
UserProcess(m, n, arg) ==
    LET r == ReadInputs([attrs |-> m.attrs, got |-> m.got, vals |-> <<>>], input_attributes(n))
        m1 == [m EXCEPT !.attrs = r.attrs, !.got = r.got]
    IN  IF UserRaises(node_type[n], r.vals)
        THEN [raises |-> TRUE, m |-> m1, val |-> None]
        ELSE LET v == UserValue(node_type[n], arg, r.vals)
             IN  [raises |-> FALSE,
                  m |-> [m1 EXCEPT !.attrs = EmitOutputs(r.attrs, output_attributes(n), v)],
                  val |-> v]

\* what a run of a processing function does besides its computation: return,
\* raise, or call one helper and return
Behaviours ==
    {[call |-> c, times |-> 0] : c \in {"none", "raise", "next", "connected"}}
        \cup {[call |-> "multiple", times |-> k] : k \in 0..MaxTimes}

\* self.execute_next_nodes(), self.execute_connected_next_nodes() or
\* self.execute_connected_next_nodes_multiple(times) called in process() of n:
\* the closures _setup_node_helpers stored on n, or None (not callable)
CallHelper(m, n, b) ==
    IF m.helpers[n] = None THEN Raise(m, "TypeError")
    ELSE LET h == m.helpers[n][1]
             m1 == [m EXCEPT !.ticks[h.t].helped = TRUE]
             base == [Frame("next", h.t) EXCEPT !.idx = h.idx, !.node = n]
         IN  CASE b.call = "next" -> PushFrame(m1, [base EXCEPT !.i = h.idx])
               [] b.call = "connected" ->
                      PushFrame(m1, [base EXCEPT !.f = "conn",
                                            !.list = get_connected_next_nodes(m.attrs, nodes, n)])
               [] b.call = "multiple" -> PushFrame(m1, [base EXCEPT !.f = "multi", !.times = b.times])

\* Node.execute from self.process(data) on, with the behaviour b of this run
ProcBody(m, b) ==
    LET fr == Top(m)
    IN  IF b.call = "raise" THEN Raise(m, "ProcessingError")
        ELSE LET u == UserProcess(m, fr.node, fr.arg)
             IN  IF u.raises THEN Raise(u.m, "TypeError")
                 ELSE LET m1 == SetTop(u.m, [fr EXCEPT !.val = u.val, !.stage = "called"])
                      IN  IF b.call = "none" THEN ProcFinish(m1)
                          ELSE CallHelper(m1, fr.node, b)

\* _setup_node_helpers(node, execution_order, current_index, ...)
setup_node_helpers(m, n, t, idx) == [m EXCEPT !.helpers[n] = Some([t |-> t, idx |-> idx])]

\* a return statement that hands back the result list even when it is empty
Returned_list(tk) ==
    [kind |-> "returned", list |-> TRUE, value |-> tk.final_data, error |-> "none"]

\* the return statement of process
Returned(tk) ==
    IF tk.final_data # <<>>
    THEN [kind |-> "returned", list |-> TRUE, value |-> tk.final_data, error |-> "none"]
    ELSE [kind |-> "returned", list |-> FALSE, value |-> tk.data, error |-> "none"]

\* One iteration of the for loop of process (or its end). An entry that is
\* no Node (an item of _nodes, a NID) has no attribute to set: the AttributeError
\* of _setup_node_helpers is caught, and setTitleError raises it again.
MainLoop(m) ==
    LET fr == Top(m)
        tk == m.ticks[fr.t]
        i == fr.i + 1
    IN  IF i > Len(tk.order) THEN [Pop(m) EXCEPT !.outcome = Returned(tk)]
        ELSE LET e == tk.order[i]
                 m1 == SetTop(m, [fr EXCEPT !.i = i])
             IN  IF e.kind # "node"
                 THEN [m1 EXCEPT !.stack = <<>>, !.outcome = Raised("AttributeError")]
                 ELSE IF e.node \in tk.executed_nodes /\ ~self_execute[e.node] THEN m1
                 ELSE Call(setup_node_helpers(m1, e.node, fr.t, i), e.node)

\* one iteration of the for loop of _execute_next_nodes (or its return)
NextLoop(m) ==
    LET fr == Top(m)
        tk == m.ticks[fr.t]
        i == fr.i + 1
    IN  IF i > Len(tk.order) THEN HelperReturn(m, fr.res)
        ELSE LET n == tk.order[i].node
             IN  IF n \notin tk.executed_nodes \/ self_execute[n]
                 THEN Call(SetTop(m, [fr EXCEPT !.i = i, !.stage = "exec"]), n)
                 ELSE SetTop(m, [fr EXCEPT !.i = i])

\* _execute_connected_next_nodes: the next connected node's dependencies are
\* ensured (stage loop), then the node is executed (stage ensured)
ConnLoop(m) ==
    LET fr == Top(m)
        tk == m.ticks[fr.t]
    IN  IF fr.stage = "loop"
        THEN LET j == fr.i + 1
             IN  IF j > Len(fr.list) THEN HelperReturn(m, fr.res)
                 ELSE PushFrame(SetTop(m, [fr EXCEPT !.i = j, !.stage = "ensuring"]),
                           [Frame("ens", fr.t) EXCEPT
                              !.node = fr.list[j],
                              !.list = get_connected_past_nodes(m.attrs, nodes, fr.list[j])])
        ELSE LET n == fr.list[fr.i]
             IN  IF n \notin tk.executed_nodes \/ self_execute[n]
                 THEN Call(setup_node_helpers(SetTop(m, [fr EXCEPT !.stage = "exec"]),
                                              n, fr.t, fr.idx), n)
                 ELSE SetTop(m, [fr EXCEPT !.stage = "loop"])

\* _ensure_dependencies_executed: the next parent's own dependencies are
\* ensured (stage loop), then the parent is executed (stage recd)
EnsureLoop(m) ==
    LET fr == Top(m)
        tk == m.ticks[fr.t]
    IN  IF fr.stage = "loop"
        THEN LET j == fr.i + 1
             IN  IF j > Len(fr.list) THEN HelperReturn(m, None)
                 ELSE IF fr.list[j] \notin tk.executed_nodes \/ self_execute[fr.list[j]]
                 THEN PushFrame(SetTop(m, [fr EXCEPT !.i = j, !.stage = "rec"]),
                           [Frame("ens", fr.t) EXCEPT
                              !.node = fr.list[j],
                              !.list = get_connected_past_nodes(m.attrs, nodes, fr.list[j])])
                 ELSE SetTop(m, [fr EXCEPT !.i = j])
        ELSE Call(SetTop(m, [fr EXCEPT !.stage = "exec"]), fr.list[fr.i])

\* a loop that stops after its first iteration
MultiLoop_once(m) ==
    LET fr == Top(m)
    IN  IF fr.i < fr.times /\ fr.i < 1
        THEN PushFrame(SetTop(m, [fr EXCEPT !.i = @ + 1]),
                  [Frame("conn", fr.t) EXCEPT
                     !.idx = fr.idx, !.node = fr.node,
                     !.list = get_connected_next_nodes(m.attrs, nodes, fr.node)])
        ELSE HelperReturn(m, fr.res)

\* one iteration of the for loop of _execute_connected_next_nodes_multiple
MultiLoop(m) ==
    LET fr == Top(m)
    IN  IF fr.i < fr.times
        THEN PushFrame(SetTop(m, [fr EXCEPT !.i = @ + 1]),
                  [Frame("conn", fr.t) EXCEPT
                     !.idx = fr.idx, !.node = fr.node,
                     !.list = get_connected_next_nodes(m.attrs, nodes, fr.node)])
        ELSE HelperReturn(m, fr.res)

\* a process() call that leaves the flags of the nodes as they are
ResetExecution_kept(f, ns) == f

\* for NID, UUID, node in self._nodes: node.reset_execution()
ResetExecution(f, ns) == [n \in Nodes |-> IF InSeq(n, ns) THEN FALSE ELSE f[n]]

\* The locals of a process() call; no_sort, clean (every input buffer was
\* empty when the call began) and helped (a helper of this call was called)
\* record the call's circumstances, results and memo what Node.execute
\* returned in it.
NewTick(order, d, no_sort, clean) ==
    [order |-> order, executed_nodes |-> {}, execution_count |-> [n \in Nodes |-> 0],
     data |-> d, final_data |-> <<>>, helped |-> FALSE, no_sort |-> no_sort, clean |-> clean,
     results |-> <<>>, memo |-> <<>>]

\* ---- the actions of a tick ----

configVars == <<nodes, emits, hist, priority, sorter, node_type, self_execute, extVars>>

\* process(d, no_sort) is called: reset, execution order, the locals
Process(d, no_sort) ==
    /\ stack = <<>>
    /\ executed' = ResetExecution(executed, nodes)
    /\ is_error' = ResetExecution(is_error, nodes)
    /\ runs' = [n \in Nodes |-> 0]
    /\ got' = [i \in Inputs |-> None]
    /\ IF nodes = <<>>
       THEN /\ outcome' = [kind |-> "returned", list |-> FALSE, value |-> d, error |-> "none"]
            /\ UNCHANGED <<ticks, stack>>
       ELSE /\ ticks' = Append(ticks,
                   NewTick(IF no_sort THEN [k \in 1..Len(nodes) |-> NidEntry(nodes[k])]
                           ELSE topological_sort(Attrs, nodes, priority),
                           d, no_sort, \A i \in Inputs : buffer[i] = <<>>))
            /\ stack' = <<Frame("main", Len(ticks) + 1)>>
            /\ outcome' = [kind |-> "running", list |-> FALSE, value |-> None, error |-> "none"]
    /\ UNCHANGED <<attrVars, helpers, configVars>>

TickMain ==
    /\ stack # <<>>
    /\ Top(Machine).f = "main"
    /\ SetMachine(MainLoop(Machine))
    /\ UNCHANGED configVars

TickProc(b) ==
    /\ stack # <<>>
    /\ Top(Machine).f = "proc"
    /\ SetMachine(ProcBody(Machine, b))
    /\ UNCHANGED configVars

TickNext ==
    /\ stack # <<>>
    /\ Top(Machine).f = "next"
    /\ SetMachine(NextLoop(Machine))
    /\ UNCHANGED configVars

TickConnected ==
    /\ stack # <<>>
    /\ Top(Machine).f = "conn"
    /\ SetMachine(ConnLoop(Machine))
    /\ UNCHANGED configVars

TickEnsure ==
    /\ stack # <<>>
    /\ Top(Machine).f = "ens"
    /\ SetMachine(EnsureLoop(Machine))
    /\ UNCHANGED configVars

TickMultiple ==
    /\ stack # <<>>
    /\ Top(Machine).f = "multi"
    /\ SetMachine(MultiLoop(Machine))
    /\ UNCHANGED configVars

TickStep ==
    \/ TickMain
    \/ \E b \in Behaviours : TickProc(b)
    \/ TickNext
    \/ TickConnected
    \/ TickEnsure
    \/ TickMultiple

\* ------------------------------------------------------------------------
\* SpecTick: one process() call on every graph over the nodes
\* ------------------------------------------------------------------------

\* The node types of the graphs explored: every node an InputProcessOutput
\* node, or the first node an Input node, the last an Output node and the
\* nodes between them Process nodes.
Typings ==
    {[n \in Nodes |-> IPO],
     [n \in Nodes |-> IF n = 1 THEN INPUT ELSE IF n = NumNodes THEN OUTPUT ELSE PROCESS]}

\* no node, or one node, has self_execute set
SelfExecuting == {[n \in Nodes |-> n = k] : k \in 0..NumNodes}

\* The external input of a process() call.
ExternalInput == 5

InitTick ==
    /\ nodes = [k \in 1..NumNodes |-> k]
    /\ Wired
    /\ emits = 0
    /\ hist = NoHist
    /\ priority = [n \in Nodes |-> Some(0)]
    /\ sorter = IdleSorter
    /\ node_type \in Typings
    /\ self_execute \in SelfExecuting
    /\ NoTick
    /\ NoExt

NextTick ==
    \/ (ticks = <<>> /\ \E no_sort \in BOOLEAN : Process(Some(ExternalInput), no_sort))
    \/ TickStep

SpecTick == InitTick /\ [][NextTick]_vars

\* ------------------------------------------------------------------------
\* SpecRun: successive process() calls on one graph, no helper calls
\* ------------------------------------------------------------------------

\* process() calls in a run.
MaxTicks == 2

\* The external inputs of the process() calls.
ExternalInputs == {Some(5), Some(7)}

\* processing functions that return or raise
Plain == {b \in Behaviours : b.call \in {"none", "raise"}}

InitRun == InitTick

NextRun ==
    \/ (Len(ticks) < MaxTicks /\ outcome.kind # "running"
          /\ \E d \in ExternalInputs : Process(d, FALSE))
    \/ TickMain
    \/ \E b \in Plain : TickProc(b)

SpecRun == InitRun /\ [][NextRun]_vars

\* ------------------------------------------------------------------------
\* SpecHelp: successive process() calls on an acyclic graph of
\* InputProcessOutput nodes whose processing functions call helpers
\* ------------------------------------------------------------------------

\* processing functions that return, or call execute_next_nodes or
\* execute_connected_next_nodes and return
Calling == {b \in Behaviours : b.call \in {"none", "next", "connected"}}

InitHelp ==
    /\ InitTick
    /\ node_type = [n \in Nodes |-> IPO]
    /\ ~Cyclic

\* the external input of the k-th process() call: 5, 7, ...
InputOfCall(k) == Some(ExternalInput + 2 * (k - 1))

NextHelp ==
    \/ (Len(ticks) < MaxTicks /\ outcome.kind # "running"
          /\ Process(InputOfCall(Len(ticks) + 1), FALSE))
    \/ TickMain
    \/ \E b \in Calling : TickProc(b)
    \/ TickNext
    \/ TickConnected
    \/ TickEnsure

SpecHelp == InitHelp /\ [][NextHelp]_vars

\* ------------------------------------------------------------------------
\* Properties of a tick
\* ------------------------------------------------------------------------

LastTick == ticks[Len(ticks)]

\* the runs of the processing function of n that are on the call stack
Running(n) == {k \in 1..Len(stack) : stack[k].f = "proc" /\ stack[k].node = n}

\* C2: within one process() call the processing function of a node with
\* self_execute = false is run at most once, whatever helpers the nodes call.
C2_AtMostOncePerTick ==
    \A n \in Nodes : ~self_execute[n] => runs[n] <= 1

\* C3: a process() call on a graph whose connections form a cycle returns,
\* having run every node's processing function exactly once.
C3_CycleFallsBack ==
    (ticks # <<>> /\ ~LastTick.no_sort /\ ~LastTick.helped /\ Cyclic
        /\ outcome.kind # "running" /\ outcome.error # "ProcessingError")
    => (outcome.kind = "returned" /\ \A n \in Nodes : runs[n] = 1)

\* C4: the executed flag bounds re-entry: the processing function of a node
\* is never entered again while a run of it is still on the call stack, so
\* helper calls cannot nest without bound.
C4_NoReentry ==
    \A n \in Nodes : Cardinality(Running(n)) <= 1

\* the chain Src (Input) -> Double (Process) -> Sink (Output)
Chain ==
    /\ node_type[1] = INPUT /\ node_type[2] = PROCESS /\ node_type[3] = OUTPUT
    /\ children[<<1, 1>>] = << <<2, 1>> >>
    /\ children[<<2, 1>>] = << <<3, 1>> >>
    /\ \A o \in Outputs : Owner(o) > 2 => children[o] = <<>>

\* every value read so far in this process() call from a connected input is
\* the value the node connected into it emitted in this call
SameTickValues ==
    \A i \in Inputs :
        (got[i] # None /\ parent[i] # None)
        => (runs[Owner(parent[i])] >= 1 /\ got[i][1] = out_data[parent[i]])

\* process(5) on the chain returned the result list [10]
ChainDoubles ==
    (Chain /\ LastTick.data = Some(5) /\ outcome.kind = "returned")
    => (outcome.list /\ outcome.value = <<Some(10)>>)

\* a process() call over an acyclic graph in which no node has called a helper
PlainTick == ticks # <<>> /\ ~LastTick.no_sort /\ ~LastTick.helped /\ ~Cyclic

\* C10 as stated: in a process() call over an acyclic graph in which no node
\* calls a helper, a node reads from an input the value the node connected
\* into it emitted in this same call, and process(5) on the chain Src ->
\* Double -> Sink returns [10].
C10_SameTickValues ==
    PlainTick => (SameTickValues /\ ChainDoubles)

\* C10, amended: the same, for a process() call that began with every input
\* buffer empty.
C10_SameTickValuesFromEmptyBuffers ==
    (PlainTick /\ LastTick.clean) => (SameTickValues /\ ChainDoubles)

\* the second process() call of a run, process(5) on the chain, began with
\* empty buffers and returned [10], Sink having read Double's 10
C10_Witness ==
    /\ Len(ticks) = MaxTicks
    /\ PlainTick /\ LastTick.clean /\ Chain
    /\ LastTick.data = Some(5)
    /\ outcome.kind = "returned"
    /\ outcome.value = <<Some(10)>>
    /\ got[<<3, 1>>] = Some(Some(10))
    /\ got[<<2, 1>>] = Some(Some(5))

\* ------------------------------------------------------------------------
\* Persistence (widget.py: save, load, clear_graph, remove_node_by_UUID;
\* node.py: to_dict, load_from_dict)
\* ------------------------------------------------------------------------

\* dpg.generate_uuid(): every node and every attribute has its own number
NodeUuid(n) == 10 * n
InputUuid(i) == 10 * i[1] + i[2]
OutputUuid(o) == 10 * o[1] + 5 + o[2]
\* a number that is the uuid of no object
NoSuchUuid == NodeUuid(0)

\* the identifiers node factories are registered under in the NodeManager
TypeIds == {"T1", "T2"}
\* NID and UUID of the tuple (NID, UUID, node) the node is added with
NID(n) == IF NumInputs(n) = 2 THEN "T2" ELSE "T1"
UUID(n) == <<"uuid7", n>>
\* the attributes the factory registered under t gives a new node
FactoryInputs(t) == IF t = "T2" THEN 2 ELSE 1
FactoryOutputs(t) == 1
\* Node.internal_data
internal_data(n) == [made_for |-> n]

\* The id of an attribute made without an id argument: label + str(uuid).
\* Strings of a label and digits are modelled as numbers: the number of the
\* label (1 input, 2 output) followed by the digits of the uuid.
LabelDigits == 1000
AttrId(label, uuid) == (IF label = "input" THEN 1 ELSE 2) * LabelDigits + uuid

\* InputNodeAttribute.to_dict / OutputNodeAttribute.to_dict, for an attribute
\* made with the default label and id
attr_to_dict(uuid, type) ==
    [label |-> type, id |-> AttrId(type, uuid), uuid |-> uuid, type |-> type]

\* Node.to_dict, with node_id and node_uuid added by save
to_dict(n) ==
    [uuid |-> NodeUuid(n),
     node_type |-> node_type[n],
     internal_data |-> internal_data(n),
     position |-> <<0, 0>>,
     input_attributes |->
         [k \in 1..NumInputs(n) |-> attr_to_dict(InputUuid(<<n, k>>), "input")],
     output_attributes |->
         [k \in 1..NumOutputs(n) |-> attr_to_dict(OutputUuid(<<n, k>>), "output")],
     node_id |-> NID(n),
     node_uuid |-> UUID(n)]

\* for input_attr in output_attr._children: connections.append(...)
RECURSIVE ChildConnections(_, _)
ChildConnections(o, cs) ==
    IF cs = <<>> THEN <<>>
    ELSE <<[output_attr_uuid |-> Some(OutputUuid(o)),
            input_attr_uuid |-> Some(InputUuid(Head(cs)))]>> \o ChildConnections(o, Tail(cs))

\* for output_attr in node._output_attributes
RECURSIVE OutputConnections(_, _)
OutputConnections(a, os) ==
    IF os = <<>> THEN <<>>
    ELSE ChildConnections(Head(os), a.children[Head(os)]) \o OutputConnections(a, Tail(os))

\* for NID, UUID, node in self._nodes
RECURSIVE NodeConnections(_, _)
NodeConnections(a, ns) ==
    IF ns = <<>> THEN <<>>
    ELSE OutputConnections(a, output_attributes(Head(ns))) \o NodeConnections(a, Tail(ns))

\* a save that leaves the connections out
save_unconnected(a, ns) ==
    [version |-> "1.0",
     nodes |-> [p \in 1..Len(ns) |-> to_dict(ns[p])],
     connections |-> <<>>,
     edits |-> 0]

\* NodeEditor.save; edits counts the changes made to the dictionary since
save(a, ns) ==
    [version |-> "1.0",
     nodes |-> [p \in 1..Len(ns) |-> to_dict(ns[p])],
     connections |-> NodeConnections(a, ns),
     edits |-> 0]

\* dict[key] = value and dict.get(key)
Put(m, key, value) == [k \in (DOMAIN m) \cup {key} |-> IF k = key THEN value ELSE m[k]]
Lookup(m, key) == IF key \in DOMAIN m THEN m[key] ELSE None

\* attributes without connections added to the attribute record a
WithAttributes(a, is, os) ==
    [children |-> [o \in os |-> <<>>] @@ a.children,
     parent |-> [i \in is |-> None] @@ a.parent,
     buffer |-> [i \in is |-> <<>>] @@ a.buffer,
     last_data |-> [i \in is |-> None] @@ a.last_data,
     out_data |-> [o \in os |-> None] @@ a.out_data]

\* uuid_mapping[attr_data['uuid']] = node._xxx_attributes[i] for every i
\* below the number of attributes the new node has
RECURSIVE MapAttributes(_, _, _, _, _, _)
MapAttributes(m, ds, k, count, kind, p) ==
    IF k > Len(ds) THEN m
    ELSE MapAttributes(IF k <= count
                       THEN Put(m, ds[k].uuid, Some([kind |-> kind, at |-> <<p, k>>]))
                       ELSE m,
                       ds, k + 1, count, kind, p)

\* The editor load() works on: the node list, the attributes of the nodes
\* made so far, uuid_mapping, and the exception raised, if any. The node made
\* for the p-th entry of the node list is called p, its attributes <<p, k>>.
EmptyEditor ==
    [nodes |-> <<>>,
     attrs |-> [children |-> <<>>, parent |-> <<>>, buffer |-> <<>>,
                last_data |-> <<>>, out_data |-> <<>>],
     mapping |-> <<>>,
     raised |-> "none"]

\* One iteration of the node loop of load. A node_id that is not registered
\* gives node = None, and None has no _input_attributes, _output_attributes
\* or _load_position: AttributeError.
LoadNode(l, nd, registry) ==
    LET p == Len(l.nodes) + 1
        known == nd.node_id \in registry
        ins == IF known THEN FactoryInputs(nd.node_id) ELSE 0
        outs == IF known THEN FactoryOutputs(nd.node_id) ELSE 0
        node == IF known
                THEN Some([node_type |-> nd.node_type, internal_data |-> nd.internal_data,
                           inputs |-> ins, outputs |-> outs])
                ELSE None
        m1 == Put(l.mapping, nd.uuid,
                  IF known THEN Some([kind |-> "node", at |-> <<p, 0>>]) ELSE None)
        m2 == MapAttributes(m1, nd.input_attributes, 1, ins, "input", p)
        m3 == MapAttributes(m2, nd.output_attributes, 1, outs, "output", p)
    IN  IF ~known /\ (nd.input_attributes # <<>> \/ nd.output_attributes # <<>>
                        \/ "position" \in DOMAIN nd)
        THEN [l EXCEPT !.raised = "AttributeError"]
        ELSE [l EXCEPT
                !.nodes = Append(@, [NID |-> nd.node_id, UUID |-> nd.node_uuid, node |-> node]),
                !.attrs = WithAttributes(@, {<<p, k>> : k \in 1..ins}, {<<p, k>> : k \in 1..outs}),
                !.mapping = m3]

RECURSIVE LoadNodes(_, _, _)
LoadNodes(l, nds, registry) ==
    IF nds = <<>> \/ l.raised # "none" THEN l
    ELSE LoadNodes(LoadNode(l, Head(nds), registry), Tail(nds), registry)

\* output_attr._children.append(input_attr); input_attr.set_parent(output_attr)
append_child(a, o, i) ==
    set_parent([a EXCEPT !.children[o] = Append(@, i)], i, o)

\* One iteration of the connection loop of load. A missing key raises
\* KeyError; an uuid that maps to nothing, or an output side that has no
\* add_child, skips the connection; an input side that is no input attribute
\* has no clear_connection: AttributeError. exists: the editor is submitted
\* (dpg.does_item_exist(self.uuid)).
LoadConnection(l, c, exists) ==
    IF c.output_attr_uuid = None \/ c.input_attr_uuid = None
    THEN [l EXCEPT !.raised = "KeyError"]
    ELSE LET out == Lookup(l.mapping, c.output_attr_uuid[1])
             in == Lookup(l.mapping, c.input_attr_uuid[1])
         IN  IF out = None \/ in = None THEN l
             ELSE IF out[1].kind # "output" THEN l
             ELSE IF in[1].kind # "input" THEN [l EXCEPT !.raised = "AttributeError"]
             ELSE LET a1 == clear_connection(l.attrs, in[1].at)
                  IN  [l EXCEPT !.attrs = IF exists THEN add_child(a1, out[1].at, in[1].at)
                                          ELSE append_child(a1, out[1].at, in[1].at)]

RECURSIVE LoadConnections(_, _, _)
LoadConnections(l, cs, exists) ==
    IF cs = <<>> \/ l.raised # "none" THEN l
    ELSE LoadConnections(LoadConnection(l, Head(cs), exists), Tail(cs), exists)

\* a load whose outer try block is missing: the exception escapes
load_unguarded(rec, registry, exists) ==
    LET l == LoadConnections(LoadNodes(EmptyEditor, rec.nodes, registry), rec.connections, exists)
    IN  [result |-> IF l.raised = "none" THEN "True" ELSE "raised",
         nodes |-> l.nodes, children |-> l.attrs.children, parent |-> l.attrs.parent,
         registry |-> registry]

\* NodeEditor.load into an editor without nodes (clear_graph has nothing to
\* clear): any exception is caught by the outer try block, which returns False
load(rec, registry, exists) ==
    LET l == LoadConnections(LoadNodes(EmptyEditor, rec.nodes, registry), rec.connections, exists)
    IN  [result |-> IF l.raised = "none" THEN "True" ELSE "False",
         nodes |-> l.nodes, children |-> l.attrs.children, parent |-> l.attrs.parent,
         registry |-> registry]

\* NodeEditor.remove_node_by_UUID: the node list without the node
remove_node_by_UUID(a, ns, n) ==
    [attrs |-> a, nodes |-> SelectSeq(ns, LAMBDA x : x # n)]

\* NodeEditor._delete_selected for one selected node
delete_selected(a, ns, n) ==
    remove_node_by_UUID(clear_all_connections(a, n), ns, n)

\* ------------------------------------------------------------------------
\* SpecEdit: nodes are removed from a graph, the graph is saved, the
\* dictionary is edited and loaded into an empty editor
\* ------------------------------------------------------------------------

\* Nodes removed from the graph before it is saved.
MaxRemovals == 1
\* Changes made to a saved dictionary before it is loaded.
MaxEdits == 1

\* the NodeManager registries a dictionary is loaded with: every factory
\* registered, or all but one
Registries == {TypeIds} \cup {TypeIds \ {t} : t \in TypeIds}

\* what an edit puts in place of a connection's uuid: the key deleted, a
\* number that is no uuid of the dictionary, the uuid of its first node
Replacements(rec) ==
    {None, Some(NoSuchUuid)} \cup {Some(rec.nodes[p].uuid) : p \in {1} \cap DOMAIN rec.nodes}

InitEdit ==
    /\ nodes = [k \in 1..NumNodes |-> k]
    /\ Wired
    /\ emits = 0
    /\ hist = NoHist
    /\ priority = [n \in Nodes |-> Some(0)]
    /\ sorter = IdleSorter
    /\ node_type = [n \in Nodes |-> IPO]
    /\ self_execute = [n \in Nodes |-> FALSE]
    /\ NoTick
    /\ NoExt

Removable(n) ==
    /\ record = None
    /\ InSeq(n, nodes)
    /\ Len(nodes) > NumNodes - MaxRemovals

RemoveNodeByUUID(n) ==
    /\ Removable(n)
    /\ LET r == remove_node_by_UUID(Attrs, nodes, n)
       IN  /\ SetAttrs(r.attrs)
           /\ nodes' = r.nodes
    /\ hist' = [NoHist EXCEPT !.op = "remove_node", !.o = n]
    /\ UNCHANGED <<emits, priority, sorter, nodeVars, tickVars, extVars>>

DeleteSelected(n) ==
    /\ Removable(n)
    /\ LET r == delete_selected(Attrs, nodes, n)
       IN  /\ SetAttrs(r.attrs)
           /\ nodes' = r.nodes
    /\ hist' = [NoHist EXCEPT !.op = "delete_selected", !.o = n]
    /\ UNCHANGED <<emits, priority, sorter, nodeVars, tickVars, extVars>>

Save ==
    /\ record = None
    /\ record' = Some(save(Attrs, nodes))
    /\ UNCHANGED <<nodes, attrVars, emits, hist, priority, sorter, nodeVars, tickVars, loaded, log, manager>>

EditConnection(k, side, v) ==
    /\ record # None
    /\ loaded = NoLoad
    /\ record[1].edits < MaxEdits
    /\ k \in 1..Len(record[1].connections)
    /\ v \in Replacements(record[1])
    /\ record' = Some([record[1] EXCEPT !.connections[k][side] = v, !.edits = @ + 1])
    /\ UNCHANGED <<nodes, attrVars, emits, hist, priority, sorter, nodeVars, tickVars, loaded, log, manager>>

Load(registry, exists) ==
    /\ record # None
    /\ loaded = NoLoad
    /\ loaded' = load(record[1], registry, exists)
    /\ UNCHANGED <<nodes, attrVars, emits, hist, priority, sorter, nodeVars, tickVars, record, log, manager>>

NextEdit ==
    \/ \E n \in Nodes : RemoveNodeByUUID(n)
    \/ \E n \in Nodes : DeleteSelected(n)
    \/ Save
    \/ \E k \in 1..(2 * NumNodes), side \in {"output_attr_uuid", "input_attr_uuid"},
          v \in {None} \cup {Some(u) : u \in 0..(10 * NumNodes)} : EditConnection(k, side, v)
    \/ \E registry \in Registries, exists \in BOOLEAN : Load(registry, exists)

SpecEdit == InitEdit /\ [][NextEdit]_vars

\* ------------------------------------------------------------------------
\* Properties of save, load and node removal
\* ------------------------------------------------------------------------

\* the dictionary save() returned for the graph, before any edit
Saved == save(Attrs, nodes)

\* the factory of every node of the graph is in the registry load() used
AllRegistered == \A n \in Range(nodes) : NID(n) \in loaded.registry

\* the nodes of the graph whose factory is registered, in order
Known == SelectSeq(nodes, LAMBDA n : NID(n) \in loaded.registry)

\* the attribute of the loaded editor that stands for attribute x of the
\* graph, when the loaded nodes stand for the nodes K
Image(x, K) == <<IndexOf(x[1], K), x[2]>>

\* the images of the children that belong to nodes of K and are not in skip
RECURSIVE ImageOfChildren(_, _, _)
ImageOfChildren(cs, K, skip) ==
    IF cs = <<>> THEN <<>>
    ELSE (IF InSeq(Head(cs)[1], K) /\ Head(cs) \notin skip
          THEN <<Image(Head(cs), K)>> ELSE <<>>) \o ImageOfChildren(Tail(cs), K, skip)

\* the image of the parent of input i, None if i has no parent among the
\* nodes of K or is in skip
ImageOfParent(i, K, skip) ==
    IF parent[i] # None /\ InSeq(parent[i][1], K) /\ i \notin skip
    THEN Image(parent[i], K) ELSE None

\* The editor load() built holds a node for every node of K, in order, with
\* the same NID, UUID, node type and internal_data, and between their
\* attributes the connections of the graph except those into inputs of skip.
Reproduces(K, skip) ==
    /\ Len(loaded.nodes) = Len(K)
    /\ \A p \in 1..Len(K) :
         LET n == K[p]
             e == loaded.nodes[p]
         IN  /\ e.NID = NID(n)
             /\ e.UUID = UUID(n)
             /\ e.node # None
             /\ e.node[1].internal_data = internal_data(n)
             /\ e.node[1].node_type = node_type[n]
             /\ \A k \in 1..NumOutputs(n) :
                  /\ <<p, k>> \in DOMAIN loaded.children
                  /\ loaded.children[<<p, k>>] = ImageOfChildren(children[<<n, k>>], K, skip)
             /\ \A k \in 1..NumInputs(n) :
                  /\ <<p, k>> \in DOMAIN loaded.parent
                  /\ loaded.parent[<<p, k>>] = ImageOfParent(<<n, k>>, K, skip)

Unedited == record # None /\ record[1].edits = 0

\* C11: load(save(g)) with every node type of g registered returns True and
\* reproduces the nodes of g (same NID, UUID, node type, internal_data) and
\* the connections between their attributes.
C11_RoundTrip ==
    (loaded.result # "none" /\ Unedited /\ AllRegistered)
    => (loaded.result = "True" /\ Reproduces(nodes, {}))

\* a graph of all nodes, one output connected to two inputs, saved and loaded
C11_Witness ==
    /\ loaded.result = "True"
    /\ Unedited
    /\ AllRegistered
    /\ Len(nodes) = NumNodes
    /\ \E o \in Outputs : Len(children[o]) = 2 /\ Len(loaded.children[Image(o, nodes)]) = 2

\* C12: load of a saved dictionary that holds a node whose type is not
\* registered returns True; the loaded editor holds the other nodes and the
\* connections between them, and neither that node nor its connections.
C12_UnknownTypeSkipped ==
    (loaded.result # "none" /\ Unedited /\ ~AllRegistered)
    => (loaded.result = "True" /\ Reproduces(Known, {}))

\* the connections of the dictionary that were edited
Edited ==
    {k \in 1..Len(Saved.connections) : record[1].connections[k] # Saved.connections[k]}

\* a connection of the dictionary cannot be made by load: a key is missing
\* or the input side is the uuid of a node
Malformed(c) ==
    \/ c.output_attr_uuid = None
    \/ c.input_attr_uuid = None
    \/ /\ \E p \in 1..Len(Saved.nodes) : c.input_attr_uuid[1] = Saved.nodes[p].uuid
       /\ \E o \in Outputs : InSeq(o[1], nodes) /\ c.output_attr_uuid[1] = OutputUuid(o)

\* C13: load returns True or False for every dictionary (unknown node type,
\* connection to an uuid that is not found, missing key, wrong kind of
\* object): no exception escapes, and it returns True when every node type
\* is registered and no connection is malformed.
C13_LoadNeverRaises ==
    /\ loaded.result \in {"none", "True", "False"}
    /\ (loaded.result # "none" /\ AllRegistered
          /\ \A k \in 1..Len(record[1].connections) : ~Malformed(record[1].connections[k]))
       => loaded.result = "True"

\* load of a dictionary with a missing key, or of one with an unregistered
\* node type, returned False
C13_Witness ==
    /\ loaded.result = "False"
    /\ \/ AllRegistered /\ \E k \in Edited : record[1].connections[k].input_attr_uuid = None
       \/ Unedited /\ ~AllRegistered

\* the connections whose edit put a number that is no uuid of the dictionary
\* in place of an attribute's uuid
Dangling ==
    {k \in Edited : \/ record[1].connections[k].output_attr_uuid = Some(NoSuchUuid)
                    \/ record[1].connections[k].input_attr_uuid = Some(NoSuchUuid)}

\* the input of the graph that connection k of the saved dictionary leads to
InputOf(k) == CHOOSE i \in Inputs : Saved.connections[k].input_attr_uuid = Some(InputUuid(i))

\* the inputs of the graph that the dangling connections lead to
Unfound == {InputOf(k) : k \in Dangling}

\* With every node type registered, load skips the connections that name an
\* uuid not found in uuid_mapping, makes every other connection and returns
\* True.
DanglingSkippedWhenAllRegistered ==
    (loaded.result # "none" /\ AllRegistered /\ Edited # {} /\ Edited = Dangling)
    => (loaded.result = "True" /\ Reproduces(nodes, Unfound))

\* C14: load skips every connection that names an attribute uuid not found
\* among the loaded attributes (a number that is no uuid of the dictionary,
\* or the uuid of an attribute of a node that was not loaded), makes every
\* other connection of the dictionary and returns True.
C14_UnfoundConnectionSkipped ==
    (loaded.result # "none" /\ Edited = Dangling)
    => (loaded.result = "True" /\ Reproduces(Known, Unfound))

\* C16: after a node was removed from the graph no attribute of a remaining
\* node has a parent or a child that belongs to a node outside the graph.
C16_RemovalClearsConnections ==
    /\ \A i \in Inputs :
         (InSeq(i[1], nodes) /\ parent[i] # None) => InSeq(parent[i][1], nodes)
    /\ \A o \in Outputs :
         InSeq(o[1], nodes) => \A k \in 1..Len(children[o]) : InSeq(children[o][k][1], nodes)

\* the nodes after position i of the execution order of the last process()
LaterNodes(i) ==
    {LastTick.order[j].node : j \in {j \in 1..Len(LastTick.order) : j > i}}

\* C15: when a node's processing function raises during process(), the node
\* is marked in error, the exception leaves process() (nothing of the call
\* remains on the stack, so no node runs any more in this tick), and in a
\* tick without helper calls no node later in the execution order has run.
C15_FailFast ==
    [][(stack # <<>> /\ Top(Machine).f = "proc" /\ outcome'.kind = "raised")
       => /\ is_error'[Top(Machine).node]
          /\ stack' = <<>>
          /\ runs' = runs
          /\ ~ticks'[Len(ticks')].helped
             => \A n \in LaterNodes(stack[1].i) : runs'[n] = 0]_vars

\* a processing function raised after another node had run: the node is in
\* error, the node that ran before is not, a third node has not run
C15_Witness ==
    /\ outcome.kind = "raised"
    /\ outcome.error = "ProcessingError"
    /\ ~LastTick.helped
    /\ \E a, b, c \in Nodes :
         /\ executed[a] /\ ~is_error[a]
         /\ runs[b] = 1 /\ ~executed[b] /\ is_error[b]
         /\ runs[c] = 0 /\ ~is_error[c]

\* ------------------------------------------------------------------------
\* Properties of Node.execute and of the helpers
\* ------------------------------------------------------------------------

\* C21: Node.execute on a node whose _executed is already set does not run
\* the processing function and returns what the node's earlier run in this
\* process() call returned.
C21_MemoizedExecuteReturnsPrior ==
    \A t \in 1..Len(ticks) : \A k \in 1..Len(ticks[t].memo) :
        ticks[t].memo[k].prior = Some(ticks[t].memo[k].val)

\* C22: every process() call starts by clearing _executed and is_error of
\* every node of the graph, so a node is flagged only for what happened in
\* the running call, and a call that returns has run every node, whether the
\* call before it returned or raised.
C22_ResetEachTick ==
    /\ [][Len(ticks') > Len(ticks)
            => \A n \in Nodes : InSeq(n, nodes) => (~executed'[n] /\ ~is_error'[n])]_vars
    /\ [](\A n \in Nodes : (executed[n] \/ is_error[n]) => runs[n] >= 1)
    /\ []((ticks # <<>> /\ outcome.kind = "returned")
            => \A n \in Nodes : runs[n] = 1 /\ executed[n] /\ ~is_error[n])

\* the first process() call raised in the second node of the order, after the
\* first node had executed; the second call ran every node and returned
C22_Witness ==
    /\ Len(ticks) = MaxTicks
    /\ Len(ticks[1].order) = NumNodes
    /\ ticks[1].order[1].kind = "node"
    /\ Len(ticks[1].results) = 1
    /\ ticks[1].results[1].node = ticks[1].order[1].node
    /\ outcome.kind = "returned"
    /\ \A n \in Nodes : runs[n] = 1 /\ executed[n] /\ ~is_error[n]

\* the results of the runs of Output and InputProcessOutput nodes among the
\* finished runs rs, in the order in which the runs returned
RECURSIVE ResultsOf(_)
ResultsOf(rs) ==
    IF rs = <<>> THEN <<>>
    ELSE IF node_type[Head(rs).node] \in {OUTPUT, IPO}
         THEN <<Head(rs).val>> \o ResultsOf(Tail(rs))
         ELSE ResultsOf(Tail(rs))

\* C23: the result list of a process() call holds the result of every run of
\* the processing function of an Output or InputProcessOutput node in that
\* call, in the order of the runs, whether the main loop or a helper ran the
\* node, and holds nothing else.
C23_ResultListComplete ==
    \A t \in 1..Len(ticks) : ticks[t].final_data = ResultsOf(ticks[t].results)

\* the position of node n in the execution order
PositionOf(order, n) ==
    CHOOSE p \in 0..Len(order) :
        IF \E q \in 1..Len(order) : order[q].kind = "node" /\ order[q].node = n
        THEN p > 0 /\ order[p].kind = "node" /\ order[p].node = n
        ELSE p = 0

\* the frames of the calls of execute_next_nodes on the call stack
NextFrames == {k \in 1..Len(stack) : stack[k].f = "next"}

\* C24: execute_next_nodes called by a node works from the calling node's own
\* position in the execution order: it executes the nodes after that position
\* and no node at or before it, also when the calling node was itself
\* started by a helper.
C24_NextNodesAfterCaller ==
    \A k \in NextFrames :
        LET fr == stack[k]
            order == ticks[fr.t].order
        IN  /\ fr.idx = PositionOf(order, fr.node)
            /\ (k < Len(stack) /\ stack[k + 1].f = "proc")
                  => PositionOf(order, stack[k + 1].node) > PositionOf(order, fr.node)

\* the nodes of the graph with a connection into node n
ParentNodes(n) ==
    {m \in Nodes : InSeq(m, nodes)
                   /\ \E k \in 1..NumInputs(n) :
                         parent[<<n, k>>] # None /\ parent[<<n, k>>][1] = m}

\* the nodes of S and every node upstream of them
RECURSIVE UpstreamClosure(_)
UpstreamClosure(S) ==
    LET T == S \cup UNION {ParentNodes(n) : n \in S}
    IN  IF T = S THEN S ELSE UpstreamClosure(T)

\* every node upstream of n
Upstream(n) == UpstreamClosure(ParentNodes(n))

\* the runs of a connected node started by execute_connected_next_nodes
DependentRuns ==
    {k \in 2..Len(stack) : stack[k].f = "proc" /\ stack[k - 1].f = "conn"}

\* C25: when execute_connected_next_nodes runs a node connected to the
\* calling node, every node with a connection into that node, and every node
\* upstream of those, has executed in the running process() call.
C25_DependenciesFirst ==
    \A k \in DependentRuns :
        Upstream(stack[k].node) \subseteq ticks[stack[1].t].executed_nodes

\* the frames of the calls of execute_connected_next_nodes_multiple
MultiFrames == {k \in 1..Len(stack) : stack[k].f = "multi"}

\* the call of execute_connected_next_nodes_multiple on top of the stack
\* returns in this step
MultipleReturns ==
    /\ stack # <<>>
    /\ stack[Len(stack)].f = "multi"
    /\ Len(stack') < Len(stack)
    /\ outcome'.kind # "raised"

\* C26: execute_connected_next_nodes_multiple(times) calls
\* execute_connected_next_nodes times times, one call after the other, and
\* returns the list of the times result lists of these calls (the empty list,
\* no call made, for times = 0); a connected node with self_execute = false
\* has a result in the first of these lists only.
C26_MultipleRunsTimes ==
    /\ [](\A k \in MultiFrames :
            LET fr == stack[k]
            IN  /\ fr.i <= fr.times
                /\ Len(fr.res) = (IF k = Len(stack) THEN fr.i ELSE fr.i - 1)
                /\ k < Len(stack) => stack[k + 1].f = "conn"
                /\ \A j \in 1..Len(fr.res) :
                      /\ Len(fr.res[j]) = Len(fr.who[j])
                      /\ j > 1 => \A p \in 1..Len(fr.who[j]) : self_execute[fr.who[j][p]])
    /\ [][MultipleReturns
            => /\ stack[Len(stack)].i = stack[Len(stack)].times
               /\ Len(stack[Len(stack)].res) = stack[Len(stack)].times]_vars

\* execute_connected_next_nodes_multiple(2) is about to return two lists: the
\* first with the result of a connected node with self_execute = false, the
\* second empty
C26_Witness ==
    /\ stack # <<>>
    /\ stack[Len(stack)].f = "multi"
    /\ stack[Len(stack)].times = MaxTimes
    /\ stack[Len(stack)].i = MaxTimes
    /\ Len(stack[Len(stack)].res) = MaxTimes
    /\ stack[Len(stack)].who[1] # <<>>
    /\ ~self_execute[stack[Len(stack)].who[1][1]]
    /\ stack[Len(stack)].res[MaxTimes] = <<>>

\* C27: every invocation, by the main loop or by a helper, of a node with
\* self_execute = true that has already executed in this process() call runs
\* the node's processing function again: no such invocation returns without
\* running it.
C27_SelfExecuteRunsAgain ==
    \A t \in 1..Len(ticks) : \A k \in 1..Len(ticks[t].memo) :
        ~self_execute[ticks[t].memo[k].node]

\* ------------------------------------------------------------------------
\* The factory registry (node.py: NodeManager)
\* ------------------------------------------------------------------------

\* Calls of register and unregister made on a NodeManager.
MaxCalls == 3

\* the node factories: callable objects, told apart by a number
NumFactories == 2
Factories == {<<"factory", k>> : k \in 1..NumFactories}

\* del dict[key]
Del(m, key) == [k \in (DOMAIN m) \ {key} |-> m[k]]

\* a register that keeps the factory an id is already registered with
register_keeps_first(d, id, node_factory) ==
    IF id \in DOMAIN d THEN d ELSE Put(d, id, node_factory)

\* NodeManager.register: self.nodes[id] = node_factory
register(d, id, node_factory) == Put(d, id, node_factory)

\* NodeManager.unregister: the dictionary afterwards and the value returned
unregister(d, id) ==
    IF id \in DOMAIN d
    THEN [nodes |-> Del(d, id), ret |-> TRUE]
    ELSE [nodes |-> d, ret |-> FALSE]

\* NodeManager.get: self.nodes.get(id, None)
get(d, id) == Lookup(d, id)

\* ------------------------------------------------------------------------
\* SpecRegistry: calls on one NodeManager
\* ------------------------------------------------------------------------

otherVars ==
    <<nodes, attrVars, emits, hist, priority, sorter, nodeVars, tickVars, record, loaded, log>>

InitRegistry == InitConn

Register(id, f) ==
    /\ Len(manager.events) < MaxCalls
    /\ manager' = [nodes |-> register(manager.nodes, id, f),
                   events |-> Append(manager.events, [op |-> "register", id |-> id, factory |-> f]),
                   op |-> "register", id |-> id, ret |-> None, pre |-> manager.nodes]
    /\ UNCHANGED otherVars

Unregister(id) ==
    /\ Len(manager.events) < MaxCalls
    /\ LET u == unregister(manager.nodes, id)
       IN  manager' = [nodes |-> u.nodes,
                       events |-> Append(manager.events,
                                         [op |-> "unregister", id |-> id, factory |-> None]),
                       op |-> "unregister", id |-> id, ret |-> u.ret, pre |-> manager.nodes]
    /\ UNCHANGED otherVars

Get(id) ==
    /\ manager' = [manager EXCEPT !.op = "get", !.id = id,
                                  !.ret = get(manager.nodes, id), !.pre = manager.nodes]
    /\ UNCHANGED otherVars

NextRegistry ==
    \E id \in TypeIds :
        \/ \E f \in Factories : Register(id, f)
        \/ Unregister(id)
        \/ Get(id)

SpecRegistry == InitRegistry /\ [][NextRegistry]_vars

\* the factory of the last register call for id among the calls es, None if
\* there was no such call or an unregister call for id came after it
RECURSIVE Registered(_, _)
Registered(es, id) ==
    IF es = <<>> THEN None
    ELSE LET e == es[Len(es)]
         IN  IF e.id # id THEN Registered(SubSeq(es, 1, Len(es) - 1), id)
             ELSE IF e.op = "register" THEN e.factory
             ELSE None

\* the calls made before the last call of register or unregister
EarlierCalls == SubSeq(manager.events, 1, Len(manager.events) - 1)

\* C28: get(id) returns the factory most recently registered under id, and
\* None if id was never registered or was unregistered since; unregister(id)
\* returns True exactly when id was registered; register and unregister
\* leave the entries of every other id as they were, and get changes nothing.
C28_RegistryLookup ==
    /\ \A id \in TypeIds : get(manager.nodes, id) = Registered(manager.events, id)
    /\ manager.op = "get"
          => (manager.ret = Registered(manager.events, manager.id)
              /\ manager.nodes = manager.pre)
    /\ manager.op = "unregister"
          => (manager.ret = (Registered(EarlierCalls, manager.id) # None))
    /\ manager.op \in {"register", "unregister"}
          => \A id \in TypeIds \ {manager.id} :
                get(manager.nodes, id) = get(manager.pre, id)

\* an id registered twice: get returns the second factory
C28_Witness ==
    /\ manager.op = "get"
    /\ Len(manager.events) >= 2
    /\ manager.events[1].op = "register"
    /\ manager.events[2].op = "register"
    /\ manager.events[1].id = manager.id
    /\ manager.events[2].id = manager.id
    /\ manager.events[1].factory # manager.events[2].factory
    /\ Registered(manager.events, manager.id) = manager.events[2].factory
    /\ manager.ret = manager.events[2].factory

\* ------------------------------------------------------------------------
\* Properties of the saved dictionary
\* ------------------------------------------------------------------------

\* the values of field f in the attribute dictionaries of the given
\* direction of the nodes of dictionary rec
AttributeField(rec, direction, f) ==
    UNION {{rec.nodes[p][direction][k][f] : k \in 1..Len(rec.nodes[p][direction])} :
              p \in 1..Len(rec.nodes)}

\* C29: every connection of the dictionary save() returns names its output
\* and its input attribute by their id (the id field of the attributes'
\* dictionaries), not by their uuid.
C29_ConnectionsByStableId ==
    Unedited
    => \A k \in 1..Len(record[1].connections) :
          LET c == record[1].connections[k]
          IN  /\ c.output_attr_uuid # None
              /\ c.input_attr_uuid # None
              /\ c.output_attr_uuid[1] \in AttributeField(record[1], "output_attributes", "id")
              /\ c.input_attr_uuid[1] \in AttributeField(record[1], "input_attributes", "id")

\* ------------------------------------------------------------------------
\* The argument of Node.execute
\* ------------------------------------------------------------------------

\* the external input of the running process() call
TickData == ticks[stack[1].t].data

\* C30: whichever way a node is executed (main loop, execute_next_nodes,
\* execute_connected_next_nodes, dependency completion), the processing
\* function of an Input or InputProcessOutput node is called with the
\* external input of the running process() call, that of a Process or Output
\* node with None.
C30_ArgumentByType ==
    \A k \in 1..Len(stack) :
        stack[k].f = "proc"
        => stack[k].arg = (IF node_type[stack[k].node] \in {INPUT, IPO}
                           THEN TickData ELSE None)

\* ------------------------------------------------------------------------
\* process(data, no_sort=True) (SpecTick)
\* ------------------------------------------------------------------------

\* the nodes whose runs finished in the process() call tk, in order
RunOrder(tk) == [k \in 1..Len(tk.results) |-> tk.results[k].node]

\* C31: process(input, no_sort=True) skips scheduling and executes all nodes
\* of the graph in their insertion order, each exactly once, and returns as
\* a scheduled call does.
C31_NoSortRunsInsertionOrder ==
    (ticks # <<>> /\ LastTick.no_sort /\ ~LastTick.helped
        /\ outcome.kind # "running" /\ outcome.error # "ProcessingError")
    => /\ outcome = Returned(LastTick)
       /\ RunOrder(LastTick) = nodes
       /\ \A n \in Nodes : runs[n] = 1

\* ------------------------------------------------------------------------
\* Redundant connects and disconnects (SpecConn)
\* ------------------------------------------------------------------------

\* what a connect or a disconnect may touch
connection == <<children, parent, buffer, last_data>>

\* C32: connecting an output to an input that is already among its children
\* changes nothing: the output's children, the input's parent and the
\* input's buffered values stay as they are, for add_child alone and for the
\* link callback.
C32_ReconnectIsNoOp ==
    [][\A o \in Outputs, i \in Inputs :
          InSeq(i, children[o])
          => /\ add_child(Attrs, o, i) = Attrs
             /\ LinkCallback(o, i) => UNCHANGED connection]_vars

\* C33: disconnect(output, input) when the input is not among the output's
\* children changes nothing: the output's children, the input's parent and
\* buffer are unchanged, and the connection the input has to a different
\* output is left intact.
C33_DisconnectOfNonChildIsNoOp ==
    [][hist'.op = "disconnect_absent"
          => /\ ~InSeq(hist'.i, children[hist'.o])
             /\ UNCHANGED connection
             /\ parent[hist'.i] # None => InSeq(hist'.i, children'[parent[hist'.i]])]_vars

\* an input connected to one output, with a value waiting in its buffer, has
\* just been disconnected from another output
C33_Witness ==
    /\ hist.op = "disconnect_absent"
    /\ parent[hist.i] # None
    /\ parent[hist.i] # hist.o
    /\ InSeq(hist.i, children[parent[hist.i]])
    /\ buffer[hist.i] # <<>>

\* ------------------------------------------------------------------------
\* Scheduling: in-degrees, cycles and ties (SpecSort)
\* ------------------------------------------------------------------------

\* the inputs of node n that an output of a node of the graph is connected to
InboundConnections(n) ==
    {i \in Inputs : Owner(i) = n /\ parent[i] # None /\ InSeq(Owner(parent[i]), nodes)}

\* the inputs of node n that an output of node a is connected to
ConnectionsFrom(a, n) == {i \in InboundConnections(n) : Owner(parent[i]) = a}

\* scheduling has computed the in-degrees and has scheduled nothing yet
Counted == sorter.pc = "loop" /\ sorter.execution_order = <<>>

\* C34: the in-degree the scheduler computes for a node is the number of
\* connections into it from nodes of the graph, parallel connections from
\* one upstream node counted separately; a node with several parallel
\* connections from one upstream node enters the execution order once, after
\* that node.
C34_InDegreeCountsConnections ==
    /\ Counted =>
           \A n \in Range(nodes) : sorter.in_degree[n] = Cardinality(InboundConnections(n))
    /\ \A n \in Range(nodes) : Count(n, sorter.execution_order) <= 1
    /\ (sorter.pc = "done" /\ ~Cyclic) =>
           \A a, n \in Range(nodes) :
               Cardinality(ConnectionsFrom(a, n)) >= 2
               => /\ Count(n, sorter.execution_order) = 1
                  /\ IndexOf(a, sorter.execution_order) < IndexOf(n, sorter.execution_order)

\* the in-degrees are computed, and the last node has an in-degree of 2 from
\* two connections out of the first node
C34_Witness ==
    /\ Counted
    /\ Cardinality(ConnectionsFrom(1, NumNodes)) = 2
    /\ sorter.in_degree[NumNodes] = 2

\* C35: the order the scheduling loop produces has fewer entries than the
\* node list if and only if the connections among the graph's nodes form a
\* cycle (a node connected to itself included); for an acyclic graph the
\* fallback is not taken.
C35_ShortOrderIffCycle ==
    sorter.pc = "done" =>
        /\ Len(sorter.execution_order) < Len(nodes) <=> Cyclic
        /\ Len(sorter.execution_order) <= Len(nodes)
        /\ ~Cyclic => sorter.result = [k \in 1..Len(nodes) |-> NodeEntry(sorter.execution_order[k])]

\* scheduling ended one node short: the last node's output is connected to
\* its own input, and the other nodes were scheduled
C35_Witness ==
    /\ sorter.pc = "done"
    /\ Connected(NumNodes, NumNodes)
    /\ \A a \in Range(nodes) : a # NumNodes => ~Connected(a, NumNodes) /\ ~Connected(NumNodes, a)
    /\ Len(sorter.execution_order) = Len(nodes) - 1

\* the nodes no node of the graph has a connection into
Sources == {n \in Range(nodes) : InboundConnections(n) = {}}

\* the nodes waiting in the ready queue
Waiting(s) == {e[3] : e \in s.heap}

\* C36: ties between ready nodes of equal priority are broken by the order
\* in which the nodes entered the ready queue: the nodes ready at the start
\* in node-list order, then the nodes in the order their in-degree reached
\* 0; of two nodes of equal priority the one that entered first is scheduled
\* first.
C36_TiesByQueueEntry ==
    /\ sorter.pc # "idle" =>
           /\ Len(sorter.pushed) >= Cardinality(Sources)
           /\ \A k \in 1..Cardinality(Sources) : sorter.pushed[k] \in Sources
           /\ \A j, k \in 1..Cardinality(Sources) :
                  j < k => ListIndex(sorter.pushed[j], nodes) < ListIndex(sorter.pushed[k], nodes)
    /\ \A j, k \in 1..Len(sorter.execution_order) :
           (/\ j < k
            /\ PriorityOf(priority, sorter.execution_order[j])
                   = PriorityOf(priority, sorter.execution_order[k]))
           => IndexOf(sorter.execution_order[j], sorter.pushed)
                  < IndexOf(sorter.execution_order[k], sorter.pushed)
    /\ \A m \in Waiting(sorter), k \in 1..Len(sorter.execution_order) :
           PriorityOf(priority, m) = PriorityOf(priority, sorter.execution_order[k])
           => IndexOf(sorter.execution_order[k], sorter.pushed) < IndexOf(m, sorter.pushed)

\* a node whose in-degree reached 0 during scheduling was scheduled after a
\* node of the same priority that had waited since the start, although it
\* was added to the graph before that node
C36_Witness ==
    \E j, k \in 1..Len(sorter.execution_order) :
        LET m == sorter.execution_order[j]
            n == sorter.execution_order[k]
        IN  /\ j < k
            /\ m \in Sources /\ n \notin Sources
            /\ PriorityOf(priority, m) = PriorityOf(priority, n)
            /\ ListIndex(n, nodes) < ListIndex(m, nodes)
            /\ IndexOf(m, sorter.pushed) < IndexOf(n, sorter.pushed)
            /\ \E h \in 1..(j - 1) : Connected(sorter.execution_order[h], n)
            /\ \A a \in Range(nodes) : Connected(a, n) => IndexOf(a, sorter.execution_order) < j

\* ------------------------------------------------------------------------
\* The executed set, the execution counts and the executed flags
\* ------------------------------------------------------------------------

\* C37: at every point of a tick a node is in the tick's executed set if and
\* only if its execution count is at least 1, and every node in the executed
\* set of the running tick has its executed flag set.
C37_ExecutedSetCountAndFlag ==
    /\ \A t \in 1..Len(ticks) : \A n \in Nodes :
           n \in ticks[t].executed_nodes <=> ticks[t].execution_count[n] >= 1
    /\ ticks # <<>> => \A n \in LastTick.executed_nodes : executed[n]

\* in the middle of a tick one node has been executed twice and another not
\* yet
C37_Witness ==
    /\ stack # <<>>
    /\ \E n, m \in Nodes :
          /\ n \in LastTick.executed_nodes
          /\ LastTick.execution_count[n] = 2
          /\ executed[n]
          /\ m \notin LastTick.executed_nodes
          /\ LastTick.execution_count[m] = 0
          /\ ~executed[m]

\* ------------------------------------------------------------------------
\* SpecReturn: nodes are added to an empty editor and connected, then
\* process() is called once; no helper calls
\* ------------------------------------------------------------------------

InitReturn ==
    /\ nodes = <<>>
    /\ children = FreshAttrs.children
    /\ parent = FreshAttrs.parent
    /\ buffer = FreshAttrs.buffer
    /\ last_data = FreshAttrs.last_data
    /\ out_data = FreshAttrs.out_data
    /\ emits = 0
    /\ hist = NoHist
    /\ priority = [n \in Nodes |-> Some(0)]
    /\ sorter = IdleSorter
    /\ node_type \in Typings
    /\ self_execute = [n \in Nodes |-> FALSE]
    /\ NoTick
    /\ NoExt

\* NodeEditor.add_node
add_node(ns, n) == Append(ns, n)

\* editor.add_node((NID, UUID, node)) for the next node
AddNode ==
    /\ outcome.kind = "none"
    /\ Len(nodes) < NumNodes
    /\ nodes' = add_node(nodes, Len(nodes) + 1)
    /\ UNCHANGED <<attrVars, emits, hist, priority, sorter, nodeVars, tickVars, extVars>>

\* a link is drawn between two nodes of the editor
ConnectAdded(o, i) ==
    /\ outcome.kind = "none"
    /\ InSeq(Owner(o), nodes) /\ InSeq(Owner(i), nodes)
    /\ Connect(o, i)

NextReturn ==
    \/ AddNode
    \/ \E o \in Outputs, i \in Inputs : ConnectAdded(o, i)
    \/ (outcome.kind = "none" /\ Process(Some(ExternalInput), FALSE))
    \/ TickMain
    \/ \E b \in Plain : TickProc(b)

SpecReturn == InitReturn /\ [][NextReturn]_vars

\* C38: process() returns the external input itself, not a list, when the
\* graph has no nodes or when no result was collected during the tick;
\* otherwise it returns the result list, which is not empty.
C38_ReturnsInputOrResults ==
    outcome.kind = "returned" =>
        IF nodes = <<>> THEN ticks = <<>> /\ ~outcome.list /\ outcome.value = Some(ExternalInput)
        ELSE IF ResultsOf(LastTick.results) = <<>>
             THEN ~outcome.list /\ outcome.value = LastTick.data
             ELSE /\ outcome.list
                  /\ outcome.value = ResultsOf(LastTick.results)
                  /\ outcome.value # <<>>

\* process() returned its input after an Input node and a Process node had
\* run and nothing was collected
C38_Witness ==
    /\ outcome.kind = "returned"
    /\ nodes = <<1, 2>>
    /\ node_type[1] = INPUT /\ node_type[2] = PROCESS
    /\ runs[1] = 1 /\ runs[2] = 1
    /\ ~outcome.list
    /\ outcome.value = Some(ExternalInput)

\* process() was called on an editor without nodes and returned its input
EmptyGraphReturned ==
    nodes = <<>> /\ outcome.kind = "returned" /\ outcome.value = Some(ExternalInput)

\* ------------------------------------------------------------------------
\* The flags of the nodes after an aborted tick
\* ------------------------------------------------------------------------

\* the last process() call was aborted by a processing function that raised,
\* and no helper was called in it
AbortedByNode ==
    /\ ticks # <<>>
    /\ outcome.kind = "raised"
    /\ outcome.error \in {"ProcessingError", "TypeError"}
    /\ ~LastTick.helped

\* the position in the execution order of the node that failed: the runs
\* before it have finished
FailedAt == Len(LastTick.results) + 1

\* C39: after a tick aborted by a failing node, without helper calls, every
\* node that ran before it in the order has executed = true and no error
\* mark, the failing node has executed = false and its error mark set, and
\* every later node has executed = false and no error mark.
C39_FlagsAfterAbort ==
    AbortedByNode =>
        /\ FailedAt <= Len(LastTick.order)
        /\ \A j \in 1..Len(LastTick.order) :
               LET n == LastTick.order[j].node
               IN  /\ LastTick.order[j].kind = "node"
                   /\ j < FailedAt => (runs[n] = 1 /\ executed[n] /\ ~is_error[n])
                   /\ j = FailedAt => (runs[n] = 1 /\ ~executed[n] /\ is_error[n])
                   /\ j > FailedAt => (runs[n] = 0 /\ ~executed[n] /\ ~is_error[n])

\* the second process() call of a run was aborted by the second node of the
\* order, after the first call had been aborted by another node
C39_Witness ==
    /\ AbortedByNode
    /\ Len(ticks) = MaxTicks
    /\ FailedAt = 2
    /\ Len(LastTick.order) = NumNodes
    /\ Len(ticks[1].results) # 1
    /\ Len(ticks[1].results) < NumNodes
    /\ is_error[LastTick.order[2].node]
    /\ executed[LastTick.order[1].node]

\* ------------------------------------------------------------------------
\* A node run through a helper raises (SpecTick)
\* ------------------------------------------------------------------------

\* the frame at position k of the stack is a run of a node's processing
\* function that a helper started
HelperRun(k) ==
    /\ k > 1
    /\ stack[k].f = "proc"
    /\ stack[k - 1].f \in {"next", "conn", "ens"}

\* the runs below position k: the innermost is the processing function that
\* called the helper
CallersBelow(k) == {j \in 1..(k - 1) : stack[j].f = "proc"}
Caller(k) == stack[CHOOSE j \in CallersBelow(k) : \A h \in CallersBelow(k) : h <= j].node

\* C40: when a node run through a helper raises and the processing function
\* that called the helper does not catch the exception, that node and the
\* node whose processing function called the helper are both marked in
\* error, and the exception leaves process().
C40_HelperRaiseMarksBoth ==
    [][(stack # <<>> /\ HelperRun(Len(stack)) /\ outcome'.kind = "raised")
       => /\ CallersBelow(Len(stack)) # {}
          /\ is_error'[stack[Len(stack)].node]
          /\ is_error'[Caller(Len(stack))]
          /\ stack' = <<>>]_vars

\* process() raised out of a node that a helper had started: that node and
\* the node that called the helper, which the main loop had started, are in
\* error, and no other node is
C40_Witness ==
    /\ outcome.kind = "raised"
    /\ outcome.error = "ProcessingError"
    /\ LastTick.helped
    /\ \E a, b \in Nodes :
          /\ a # b
          /\ {n \in Nodes : is_error[n]} = {a, b}
          /\ runs[a] = 1 /\ runs[b] = 1
          /\ ~executed[a] /\ ~executed[b]
          /\ LastTick.results = <<>>

====
